---- MODULE Spec2Model ----
(***************************************************************************)
(* tokn: an OAuth 2.0 authorization server (oauth2-server) and a JWT token *)
(* service (jwt-service).                                                  *)
(*                                                                         *)
(* Twelve specifications share this module:                                *)
(*   Spec         the authorization server: POST /oauth/authorize and the  *)
(*                steps of POST /oauth/token against the relational store; *)
(*   SpecAbort    Spec with tasks dropped at an .await by a disconnect;    *)
(*   SpecRefresh  the token service, rotation: POST /auth/token and the    *)
(*                steps of POST /auth/refresh against the key/value store; *)
(*   SpecRevoke   the token service, revocation: POST /auth/token,         *)
(*                /auth/validate and the steps of /auth/revoke, with the   *)
(*                clock and the store's per-key TTL;                       *)
(*   SpecValidate SpecRevoke with the history of each JWT's refusals;      *)
(*   SpecRerevoke revocations and validations of minted JWTs, with the     *)
(*                history of each JWT's revocations;                       *)
(*   SpecJwt      generate_token / validate_token as pure functions;       *)
(*   SpecGet      the authorization server: GET /oauth/authorize and       *)
(*                GET /oauth/userinfo over a table of issued tokens;       *)
(*   SpecUserinfo the authorization server: POST /oauth/token and           *)
(*                GET /oauth/userinfo over issued codes;                   *)
(*   SpecConfig   the token service's start-up: Config::from_env over an   *)
(*                environment, and Claims::new with the loaded Config;     *)
(*   SpecProtected the gate of GET /protected over minted JWTs and a       *)
(*                blacklist;                                               *)
(*   SpecCompare  the comparison of client secrets, byte by byte.          *)
(* Each handler is cut at its store statements (the .await points); the    *)
(* synchronous code that follows a statement belongs to the same action.   *)
(* A store statement either succeeds or fails (dbok), chosen freely.  A    *)
(* read of a table nothing writes (clients) commutes with every other      *)
(* statement, so it is taken together with the statement after it.  A      *)
(* response is written out (the finish actions) before any other step is   *)
(* taken: writing it out touches nothing but the response itself.          *)
(* Wall-clock time is the integer now (seconds); Tick moves it forward to  *)
(* an instant at which the comparison with a stored expiry changes.        *)
(***************************************************************************)
EXTENDS Integers, Sequences, FiniteSets, TLC

VARIABLES
    now,                  \* wall clock, seconds (Utc::now())
    uuid,                 \* number of Uuid::new_v4() values handed out so far (a value
                          \* drawn by a request that then fails is seen by nobody)
    \* ---- authorization server (oauth2-server)
    authorization_codes,  \* table authorization_codes
    access_tokens,        \* table access_tokens
    task,                 \* POST /oauth/token tasks in flight
    issued,               \* log of the 200 responses of POST /oauth/token: the code, the
                          \* token, and whether the request began after an earlier 200
                          \* for the same code had been answered (prior200), whether
                          \* a store statement of the request failed (dberr)
    redirect,             \* the last response of POST /oauth/authorize
    reply,                \* the last response of GET /oauth/authorize, GET /oauth/userinfo
    \* ---- token service (jwt-service)
    refresh_store,        \* redis keys refresh_token:{handle}
    blacklist,            \* redis keys blacklist:jti:{jti}
    jwts,                 \* the access JWTs handed out so far
    ts,                   \* token-service requests in flight
    rlog,                 \* what has been answered so far, per handle / jti
    \* ---- signer / verifier as pure functions
    jw,                   \* inputs and results of one sign / verify experiment, or of
                          \* one comparison of secrets
    \* ---- token service start-up
    exchanged,            \* history: for every committed INSERT INTO access_tokens, the
                          \* code it was made for, the token it wrote and the user_id
                          \* of the code row
    svc                   \* the environment of the process, the Config loaded from it and
                          \* the last Claims built with it

vars == <<now, uuid, authorization_codes, access_tokens, task, issued, redirect, reply,
          refresh_store, blacklist, jwts, ts, rlog, jw, svc, exchanged>>

asVars == <<authorization_codes, access_tokens, task, issued, redirect, reply>>
tsVars == <<refresh_store, blacklist, jwts, ts, rlog>>

-----------------------------------------------------------------------------
(* Bounds of the model.                                                    *)

\* tasks of one kind that can be in flight at once
NumTasks == 2
\* Uuid::new_v4() values one run may draw
MaxUuid == 3

\* the clock of the authorization server is followed until MaxLate seconds after
\* the expiry of a code issued at 0
MaxLate == 1

\* POST /auth/token is answered 200 at most MaxMint times
MaxMint == 1
\* and is served while the clock is at most MaxMintTime: the instants that matter
\* are relative to the iat of the tokens
MaxMintTime == 0
\* longest client secret, in bytes
MaxSecretLen == 3

Tasks == 1..NumTasks

-----------------------------------------------------------------------------
(* oauth2-server: the relational store.                                    *)

\* rows of table clients (created out of band, read-only at runtime)
clients ==
    { [client_id |-> "demo-client", client_secret |-> "s3cret", redirect_uri |-> "cb"],
      [client_id |-> "other-client", client_secret |-> "s3cret2", redirect_uri |-> "cb2"] }

\* Duration::minutes(5), in seconds
CodeTtl == 300
\* Duration::hours(1), in seconds
TokenTtl == 3600

NoCode == [code |-> 0, client_id |-> "", user_id |-> "", redirect_uri |-> "",
           scope |-> "", expires_at |-> 0]

NoParams == [wellformed |-> FALSE, grant_type |-> "", code |-> 0, redirect_uri |-> "",
             client_id |-> "", client_secret |-> ""]

\* stmts counts the store statements the task has issued
IdleTask == [pc |-> "idle", params |-> NoParams, auth_code |-> NoCode,
             access_token |-> 0, expires_at |-> 0, status |-> 0, error |-> "",
             description |-> "", stmts |-> 0, prior200 |-> FALSE, dberr |-> FALSE]

\* SELECT client_secret, redirect_uri FROM clients WHERE client_id = $1
lookup_client(client_id) == { c \in clients : c.client_id = client_id }

\* the SELECT without its client_id condition
fetch_code_any_client(code, client_id) ==
    { a \in authorization_codes : a.code = code }

\* SELECT ... FROM authorization_codes WHERE code = $1 AND client_id = $2
fetch_code(code, client_id) ==
    { a \in authorization_codes : a.code = code /\ a.client_id = client_id }

\* DELETE FROM authorization_codes WHERE code = $1
delete_code(code) == { a \in authorization_codes : a.code # code }

-----------------------------------------------------------------------------
(* POST /oauth/authorize                                                   *)

\* A URL is the sequence of its pieces: a value that came in one piece is one
\* element, the delimiters ? & = are elements of their own.  A form value arrives
\* percent-decoded, so it may hold delimiters.

\* the position of the first d in seq, 0 when there is none
IndexOf(seq, d) ==
    IF \E i \in 1..Len(seq) : seq[i] = d
    THEN CHOOSE i \in 1..Len(seq) : seq[i] = d /\ \A j \in 1..(i - 1) : seq[j] # d
    ELSE 0

RECURSIVE split(_, _)
split(seq, d) ==
    LET i == IndexOf(seq, d)
    IN  IF i = 0 THEN <<seq>>
        ELSE <<SubSeq(seq, 1, i - 1)>> \o split(SubSeq(seq, i + 1, Len(seq)), d)

\* the name=value pairs of the query of a URL, as Query<..> of the receiving
\* client takes them apart
query_pairs(url) ==
    LET i == IndexOf(url, "?")
    IN  IF i = 0 THEN <<>> ELSE split(SubSeq(url, i + 1, Len(url)), "&")

\* the value of the first pair called name
query_param(url, name) ==
    LET ps == query_pairs(url)
        hits == { i \in DOMAIN ps : Len(ps[i]) >= 2 /\ ps[i][1] = name /\ ps[i][2] = "=" }
        first == CHOOSE i \in hits : \A j \in hits : i <= j
    IN  IF hits = {} THEN [present |-> FALSE, value |-> <<>>]
        ELSE [present |-> TRUE, value |-> SubSeq(ps[first], 3, Len(ps[first]))]

\* format!("{}?error={}&state={}", redirect_uri, error, state)
error_url(redirect_uri, error, state) ==
    <<redirect_uri, "?", "error", "=", error, "&", "state", "=">> \o state

\* format!("{}?code={}&state={}", redirect_uri, code, state)
callback_url(redirect_uri, code, state) ==
    <<redirect_uri, "?", "code", "=", ToString(code), "&", "state", "=">> \o state

NoForm == [client_id |-> "", redirect_uri |-> "", scope |-> "", state |-> <<>>,
           action |-> ""]

\* dberr: whether the INSERT of the request failed
NoRedirect == [form |-> NoForm, location |-> <<>>, dberr |-> FALSE]

\* no response is waiting to be written out
Quiet == redirect = NoRedirect /\ \A r \in Tasks : task[r].pc # "done"

\* the forms the model posts: the registered client with its registered
\* redirect_uri or with another one (the handler checks neither)
AuthorizeForms ==
    [client_id : {"demo-client"}, redirect_uri : {"cb", "evil"}, scope : {"profile"},
     state : {<<"XYZ">>, <<"x", "&", "code", "=", "9">>},
     action : {"approve", "deny", "other"}]

authorize_post_handler(form, dbok) ==
    /\ Quiet
    /\ IF form.action = "deny"
       THEN /\ redirect' = [form |-> form, dberr |-> FALSE, location |->
                               error_url(form.redirect_uri, "access_denied", form.state)]
            /\ UNCHANGED <<uuid, authorization_codes>>
       ELSE /\ uuid < MaxUuid
            /\ uuid' = uuid + 1
            /\ IF dbok
               THEN /\ authorization_codes' = authorization_codes \cup
                          { [code |-> uuid + 1, client_id |-> form.client_id,
                             user_id |-> "user_001", redirect_uri |-> form.redirect_uri,
                             scope |-> form.scope, expires_at |-> now + CodeTtl] }
                    /\ redirect' = [form |-> form, dberr |-> FALSE, location |->
                                       callback_url(form.redirect_uri, uuid + 1, form.state)]
               ELSE /\ UNCHANGED authorization_codes
                    /\ redirect' = [form |-> form, dberr |-> TRUE, location |->
                                       error_url(form.redirect_uri, "server_error", form.state)]
    /\ UNCHANGED <<now, access_tokens, task, issued, tsVars, jw, svc, exchanged, reply>>

\* the 302 has been written
authorize_finish ==
    /\ redirect # NoRedirect
    /\ redirect' = NoRedirect
    /\ UNCHANGED <<now, uuid, authorization_codes, access_tokens, task, issued, tsVars, jw, svc, exchanged, reply>>

AuthorizePost == \E form \in AuthorizeForms, dbok \in BOOLEAN : authorize_post_handler(form, dbok)
AuthorizeFinish == authorize_finish

-----------------------------------------------------------------------------
(* POST /oauth/token                                                       *)

\* every code value that was ever stored
KnownCodes == {a.code : a \in authorization_codes} \cup {i.code : i \in issued}

\* the requests the model sends for code value k: the request of the registered
\* client demo-client, and that request with one field changed
RequestsFor(k) ==
    LET good == [wellformed |-> TRUE, grant_type |-> "authorization_code", code |-> k,
                 redirect_uri |-> "cb", client_id |-> "demo-client",
                 client_secret |-> "s3cret"]
    IN  { good,
          [good EXCEPT !.grant_type = "password"],
          [good EXCEPT !.redirect_uri = "evil"],
          [good EXCEPT !.client_id = "ghost"],
          [good EXCEPT !.client_secret = "wrong"],
          [good EXCEPT !.client_id = "other-client", !.client_secret = "s3cret2"],
          [good EXCEPT !.grant_type = "password", !.client_id = "ghost"],
          [good EXCEPT !.client_secret = "wrong", !.redirect_uri = "evil"] }

TokenRequests == {NoParams} \cup UNION { RequestsFor(k) : k \in KnownCodes \cup {0} }

Respond(t, status, error) == [t EXCEPT !.pc = "done", !.status = status, !.error = error]

LowestIdle(tasks, r) == tasks[r].pc = "idle" /\ \A q \in Tasks : q < r => tasks[q].pc # "idle"

\* a code that never expires
code_expired_never(expires_at, t) == FALSE

\* the expiry test of token.rs 220
code_expired(expires_at, t) == expires_at < t

\* the outcome of the checks: status 0 when all of them passed
Verdict(status, error, description, stmts, dberr, row) ==
    [status |-> status, error |-> error, description |-> description, stmts |-> stmts,
     dberr |-> dberr, row |-> row]

\* the checks with the client looked up before grant_type is read
token_checks_client_first(p, dbok1, dbok2) ==
    LET client == lookup_client(p.client_id)
        found == fetch_code(p.code, p.client_id)
        row == CHOOSE a \in found : TRUE
    IN  IF ~p.wellformed
        THEN Verdict(400, "invalid_request", "Malformed request", 0, FALSE, NoCode)
        ELSE IF ~dbok1
        THEN Verdict(500, "server_error", "Internal server error", 1, TRUE, NoCode)
        ELSE IF client = {}
        THEN Verdict(401, "invalid_client", "Client not found", 1, FALSE, NoCode)
        ELSE IF p.grant_type # "authorization_code"
        THEN Verdict(400, "unsupported_grant_type",
                     "Only authorization_code grant type is supported", 1, FALSE, NoCode)
        ELSE IF (CHOOSE c \in client : TRUE).client_secret # p.client_secret
        THEN Verdict(401, "invalid_client", "Invalid client credentials", 1, FALSE, NoCode)
        ELSE IF ~dbok2
        THEN Verdict(500, "server_error", "Internal server error", 2, TRUE, NoCode)
        ELSE IF found = {}
        THEN Verdict(400, "invalid_grant", "Authorization code not found", 2, FALSE, NoCode)
        ELSE IF code_expired(row.expires_at, now)
        THEN Verdict(400, "invalid_grant", "Authorization code has expired", 2, FALSE, NoCode)
        ELSE IF row.redirect_uri # p.redirect_uri
        THEN Verdict(400, "invalid_grant", "Redirect URI mismatch", 2, FALSE, NoCode)
        ELSE Verdict(0, "", "", 2, FALSE, row)

\* the checks without the comparison of redirect_uri
token_checks_any_redirect(p, dbok1, dbok2) ==
    LET client == lookup_client(p.client_id)
        found == fetch_code(p.code, p.client_id)
        row == CHOOSE a \in found : TRUE
    IN  IF ~p.wellformed
        THEN Verdict(400, "invalid_request", "Malformed request", 0, FALSE, NoCode)
        ELSE IF p.grant_type # "authorization_code"
        THEN Verdict(400, "unsupported_grant_type",
                     "Only authorization_code grant type is supported", 0, FALSE, NoCode)
        ELSE IF ~dbok1
        THEN Verdict(500, "server_error", "Internal server error", 1, TRUE, NoCode)
        ELSE IF client = {}
        THEN Verdict(401, "invalid_client", "Client not found", 1, FALSE, NoCode)
        ELSE IF (CHOOSE c \in client : TRUE).client_secret # p.client_secret
        THEN Verdict(401, "invalid_client", "Invalid client credentials", 1, FALSE, NoCode)
        ELSE IF ~dbok2
        THEN Verdict(500, "server_error", "Internal server error", 2, TRUE, NoCode)
        ELSE IF found = {}
        THEN Verdict(400, "invalid_grant", "Authorization code not found", 2, FALSE, NoCode)
        ELSE IF code_expired(row.expires_at, now)
        THEN Verdict(400, "invalid_grant", "Authorization code has expired", 2, FALSE, NoCode)
        ELSE Verdict(0, "", "", 2, FALSE, row)

\* token.rs 96-242: parse the body, check grant_type, look the client up (dbok1),
\* compare the secret, fetch the code row (dbok2), check expiry and redirect_uri
token_checks(p, dbok1, dbok2) ==
    LET client == lookup_client(p.client_id)
        found == fetch_code(p.code, p.client_id)
        row == CHOOSE a \in found : TRUE
    IN  IF ~p.wellformed
        THEN Verdict(400, "invalid_request", "Malformed request", 0, FALSE, NoCode)
        ELSE IF p.grant_type # "authorization_code"
        THEN Verdict(400, "unsupported_grant_type",
                     "Only authorization_code grant type is supported", 0, FALSE, NoCode)
        ELSE IF ~dbok1
        THEN Verdict(500, "server_error", "Internal server error", 1, TRUE, NoCode)
        ELSE IF client = {}
        THEN Verdict(401, "invalid_client", "Client not found", 1, FALSE, NoCode)
        ELSE IF (CHOOSE c \in client : TRUE).client_secret # p.client_secret
        THEN Verdict(401, "invalid_client", "Invalid client credentials", 1, FALSE, NoCode)
        ELSE IF ~dbok2
        THEN Verdict(500, "server_error", "Internal server error", 2, TRUE, NoCode)
        ELSE IF found = {}
        THEN Verdict(400, "invalid_grant", "Authorization code not found", 2, FALSE, NoCode)
        ELSE IF code_expired(row.expires_at, now)
        THEN Verdict(400, "invalid_grant", "Authorization code has expired", 2, FALSE, NoCode)
        ELSE IF row.redirect_uri # p.redirect_uri
        THEN Verdict(400, "invalid_grant", "Redirect URI mismatch", 2, FALSE, NoCode)
        ELSE Verdict(0, "", "", 2, FALSE, row)

\* the handler deleting the row of a code it finds expired
token_start_purging(r, p, dbok1, dbok2) ==
    /\ Quiet
    /\ LowestIdle(task, r)
    /\ LET t == [IdleTask EXCEPT !.params = p,
                   !.prior200 = \E i \in issued : i.code = p.code]
           c == token_checks(p, dbok1, dbok2)
       IN  IF c.status # 0
           THEN /\ task' = [task EXCEPT ![r] =
                              Respond([t EXCEPT !.dberr = c.dberr,
                                         !.stmts = IF c.description = "Authorization code has expired"
                                                   THEN c.stmts + 1 ELSE c.stmts,
                                         !.description = c.description],
                                      c.status, c.error)]
                /\ authorization_codes' =
                       IF c.description = "Authorization code has expired"
                       THEN delete_code(p.code) ELSE authorization_codes
                /\ UNCHANGED uuid
           ELSE /\ uuid < MaxUuid
                /\ uuid' = uuid + 1
                /\ UNCHANGED authorization_codes
                /\ task' = [task EXCEPT ![r] = [t EXCEPT !.pc = "insert_token",
                              !.stmts = c.stmts,
                              !.auth_code = c.row, !.access_token = uuid + 1,
                              !.expires_at = now + TokenTtl]]
    /\ UNCHANGED <<now, access_tokens, issued, redirect, tsVars, jw, svc, exchanged, reply>>

\* token.rs 96-247: the checks, then the access token and its expiry are drawn
token_start(r, p, dbok1, dbok2) ==
    /\ Quiet
    /\ LowestIdle(task, r)
    /\ LET t == [IdleTask EXCEPT !.params = p,
                   !.prior200 = \E i \in issued : i.code = p.code]
           c == token_checks(p, dbok1, dbok2)
       IN  IF c.status # 0
           THEN /\ task' = [task EXCEPT ![r] =
                              Respond([t EXCEPT !.dberr = c.dberr, !.stmts = c.stmts,
                                                !.description = c.description],
                                      c.status, c.error)]
                /\ UNCHANGED uuid
           ELSE /\ uuid < MaxUuid
                /\ uuid' = uuid + 1
                /\ task' = [task EXCEPT ![r] = [t EXCEPT !.pc = "insert_token",
                              !.stmts = c.stmts,
                              !.auth_code = c.row, !.access_token = uuid + 1,
                              !.expires_at = now + TokenTtl]]
    /\ UNCHANGED <<now, authorization_codes, access_tokens, issued, redirect, tsVars, jw, svc, exchanged, reply>>

\* token.rs 249-275: INSERT INTO access_tokens
token_insert(r, dbok) ==
    /\ Quiet
    /\ task[r].pc = "insert_token"
    /\ LET t == task[r]
       IN  IF dbok
           THEN /\ access_tokens' = access_tokens \cup
                      { [token |-> t.access_token, client_id |-> t.params.client_id,
                         user_id |-> t.auth_code.user_id, scope |-> t.auth_code.scope,
                         expires_at |-> t.expires_at] }
                /\ exchanged' = exchanged \cup
                      { [code |-> t.params.code, token |-> t.access_token,
                         user_id |-> t.auth_code.user_id] }
                /\ task' = [task EXCEPT ![r].pc = "delete_code", ![r].stmts = @ + 1]
           ELSE /\ UNCHANGED <<access_tokens, exchanged>>
                /\ task' = [task EXCEPT ![r] =
                              Respond([t EXCEPT !.dberr = TRUE, !.stmts = @ + 1,
                                                !.description = "Failed to generate token"],
                                      500, "server_error")]
    /\ UNCHANGED <<now, uuid, authorization_codes, issued, redirect, tsVars, jw, svc, reply>>

\* token.rs 277-295: DELETE the code (the result is dropped: let _ =), answer 200
token_delete(r, dbok) ==
    /\ Quiet
    /\ task[r].pc = "delete_code"
    /\ authorization_codes' = IF dbok THEN delete_code(task[r].params.code)
                              ELSE authorization_codes
    /\ task' = [task EXCEPT ![r] =
                  Respond([task[r] EXCEPT !.dberr = ~dbok, !.stmts = @ + 1], 200, "")]
    /\ issued' = issued \cup {[code |-> task[r].params.code, token |-> task[r].access_token,
                               prior200 |-> task[r].prior200, dberr |-> ~dbok]}
    /\ UNCHANGED <<now, uuid, access_tokens, redirect, tsVars, jw, svc, exchanged, reply>>

\* the response has been written; the task ends
token_finish(r) ==
    /\ task[r].pc = "done"
    /\ task' = [task EXCEPT ![r] = IdleTask]
    /\ UNCHANGED <<now, uuid, authorization_codes, access_tokens, issued, redirect, tsVars, jw, svc, exchanged, reply>>

\* the client disconnects and the task is dropped at an .await; what its
\* statements have committed stays
token_abort(r) ==
    /\ Quiet
    /\ task[r].pc \in {"insert_token", "delete_code"}
    /\ task' = [task EXCEPT ![r] = IdleTask]
    /\ UNCHANGED <<now, uuid, authorization_codes, access_tokens, issued, redirect, tsVars,
                   jw, svc, exchanged, reply>>

TokenStart == \E r \in Tasks, p \in TokenRequests, dbok1, dbok2 \in BOOLEAN :
                 token_start(r, p, dbok1, dbok2)
TokenInsert == \E r \in Tasks, dbok \in BOOLEAN : token_insert(r, dbok)
TokenDelete == \E r \in Tasks, dbok \in BOOLEAN : token_delete(r, dbok)
TokenFinish == \E r \in Tasks : token_finish(r)
TokenAbort == \E r \in Tasks : token_abort(r)

\* instants at which the comparison with the expiry of a code changes
ASInstants ==
    UNION { {a.expires_at, a.expires_at + 1} : a \in authorization_codes }

TickAS ==
    /\ Quiet
    /\ \E t \in ASInstants : t > now /\ t <= CodeTtl + MaxLate /\ now' = t
    /\ UNCHANGED <<uuid, asVars, tsVars, jw, svc, exchanged, reply>>

-----------------------------------------------------------------------------
(* GET /oauth/authorize and GET /oauth/userinfo.  Each is one step: the    *)
(* only row userinfo reads that can change is the one of the presented     *)
(* token, and nothing updates or deletes a row of access_tokens.           *)

\* rows of table users (created out of band, read-only at runtime)
users == { [user_id |-> "user_001", username |-> "demo"] }

NoQuery == [response_type |-> "", client_id |-> "", redirect_uri |-> "",
            scope |-> "", state |-> ""]

\* the Authorization header: absent, or a scheme and credentials
NoHeader == [present |-> FALSE, scheme |-> "", token |-> 0]

NoReply == [endpoint |-> "", query |-> NoQuery, authorization |-> NoHeader, status |-> 0,
            error |-> "", reflected |-> NoQuery, sub |-> "", username |-> "",
            dberr |-> FALSE]

\* the queries the model sends: the registered client's, and that query with
\* one of response_type, client_id, redirect_uri changed
AuthorizeQueries ==
    LET good == [response_type |-> "code", client_id |-> "demo-client",
                 redirect_uri |-> "cb", scope |-> "profile", state |-> "XYZ"]
    IN  { good,
          [good EXCEPT !.response_type = "token"],
          [good EXCEPT !.client_id = "ghost"],
          [good EXCEPT !.redirect_uri = "evil"],
          [good EXCEPT !.scope = "", !.state = ""] }

\* authorize.rs 49-91: the consent page, built from the query as it came
authorize_handler(q) ==
    /\ reply = NoReply
    /\ reply' = [NoReply EXCEPT !.endpoint = "authorize", !.query = q, !.status = 200,
                    !.reflected = [q EXCEPT !.response_type = "",
                                            !.scope = IF q.scope = "" THEN "profile" ELSE @]]
    /\ UNCHANGED <<now, uuid, authorization_codes, access_tokens, task, issued, redirect,
                   tsVars, jw, svc, exchanged>>

\* the SELECT without its WHERE
fetch_token_any(token) == access_tokens

\* SELECT user_id, expires_at FROM access_tokens WHERE token = $1
fetch_token(token) == { a \in access_tokens : a.token = token }

\* SELECT user_id, username FROM users WHERE user_id = $1
fetch_user(user_id) == { u \in users : u.user_id = user_id }

\* the expiry test of userinfo.rs 132
access_token_expired(expires_at, t) == expires_at < t

\* the Authorization headers the model sends
Headers ==
    {NoHeader, [present |-> TRUE, scheme |-> "Basic", token |-> 0]}
    \cup { [present |-> TRUE, scheme |-> "Bearer", token |-> k] :
             k \in {a.token : a \in access_tokens} \cup {0} }

\* the handler answering from the token row when the user lookup fails
userinfo_handler_open(h, dbok1, dbok2) ==
    /\ reply = NoReply
    /\ LET r == [NoReply EXCEPT !.endpoint = "userinfo", !.authorization = h]
           found == fetch_token(h.token)
           access_token == CHOOSE a \in found : TRUE
           user == fetch_user(access_token.user_id)
           u == CHOOSE x \in user : TRUE
       IN  reply' =
             IF ~h.present
             THEN [r EXCEPT !.status = 401, !.error = "Missing Authorization header"]
             ELSE IF h.scheme # "Bearer"
             THEN [r EXCEPT !.status = 401, !.error = "Invalid Authorization header format"]
             ELSE IF ~dbok1
             THEN [r EXCEPT !.status = 500, !.error = "Internal server error", !.dberr = TRUE]
             ELSE IF found = {}
             THEN [r EXCEPT !.status = 401, !.error = "Invalid token"]
             ELSE IF access_token_expired(access_token.expires_at, now)
             THEN [r EXCEPT !.status = 401, !.error = "Token has expired"]
             ELSE IF ~dbok2
             THEN [r EXCEPT !.status = 200, !.sub = access_token.user_id, !.dberr = TRUE]
             ELSE IF user = {}
             THEN [r EXCEPT !.status = 404, !.error = "User not found"]
             ELSE [r EXCEPT !.status = 200, !.sub = u.user_id, !.username = u.username]
    /\ UNCHANGED <<now, uuid, authorization_codes, access_tokens, task, issued, redirect,
                   tsVars, jw, svc, exchanged>>

\* userinfo.rs 62-186
userinfo_handler(h, dbok1, dbok2) ==
    /\ reply = NoReply
    /\ LET r == [NoReply EXCEPT !.endpoint = "userinfo", !.authorization = h]
           found == fetch_token(h.token)
           access_token == CHOOSE a \in found : TRUE
           user == fetch_user(access_token.user_id)
           u == CHOOSE x \in user : TRUE
       IN  reply' =
             IF ~h.present
             THEN [r EXCEPT !.status = 401, !.error = "Missing Authorization header"]
             ELSE IF h.scheme # "Bearer"
             THEN [r EXCEPT !.status = 401, !.error = "Invalid Authorization header format"]
             ELSE IF ~dbok1
             THEN [r EXCEPT !.status = 500, !.error = "Internal server error", !.dberr = TRUE]
             ELSE IF found = {}
             THEN [r EXCEPT !.status = 401, !.error = "Invalid token"]
             ELSE IF access_token_expired(access_token.expires_at, now)
             THEN [r EXCEPT !.status = 401, !.error = "Token has expired"]
             ELSE IF ~dbok2
             THEN [r EXCEPT !.status = 500, !.error = "Internal server error", !.dberr = TRUE]
             ELSE IF user = {}
             THEN [r EXCEPT !.status = 404, !.error = "User not found"]
             ELSE [r EXCEPT !.status = 200, !.sub = u.user_id, !.username = u.username]
    /\ UNCHANGED <<now, uuid, authorization_codes, access_tokens, task, issued, redirect,
                   tsVars, jw, svc, exchanged>>

\* the response has been written
reply_finish ==
    /\ reply # NoReply
    /\ reply' = NoReply
    /\ UNCHANGED <<now, uuid, authorization_codes, access_tokens, task, issued, redirect,
                   tsVars, jw, svc, exchanged>>

AuthorizeGet == \E q \in AuthorizeQueries : authorize_handler(q)
UserInfo == \E h \in Headers, dbok1, dbok2 \in BOOLEAN : userinfo_handler(h, dbok1, dbok2)
ReplyFinish == reply_finish

\* instants at which the comparison with the expiry of an access token changes
TokenInstants ==
    UNION { {a.expires_at, a.expires_at + 1} : a \in access_tokens }

TickGet ==
    /\ reply = NoReply
    /\ \E t \in TokenInstants : t > now /\ t <= TokenTtl + MaxLate /\ now' = t
    /\ UNCHANGED <<uuid, asVars, tsVars, jw, svc, exchanged>>

-----------------------------------------------------------------------------
(* jwt-service: Claims, generate_token, validate_token.                    *)
(*                                                                         *)
(* A token is the record of its three segments.  The payload is the JSON   *)
(* object serde writes for Claims: the fields by name, in the order of the *)
(* struct.  The signature is HMAC-SHA256 of header and payload under the   *)
(* key, taken as collision-free: the pair of what was signed and the key.  *)
(* decode is jsonwebtoken's decode under Validation::new(HS256): the       *)
(* header is parsed (an alg outside the crate's Algorithm enum does not    *)
(* parse), the alg is checked against the allowed list, then the MAC is    *)
(* computed and compared, then the claims are parsed and exp is compared   *)
(* with the clock, the crate's default leeway applied.                     *)

\* JWT_ACCESS_TOKEN_EXPIRY_SECONDS, default
AccessTokenExpirySeconds == 900
\* JWT_REFRESH_TOKEN_EXPIRY_SECONDS, default
RefreshTokenExpirySeconds == 604800
\* Validation::new(Algorithm::HS256): leeway, seconds
Leeway == 60

\* JWT_SECRET of the running service
Secret == "secret-A"

\* the names of jsonwebtoken::Algorithm the model uses
KnownAlgorithms == {"HS256", "HS384", "RS256"}

NoClaims == [sub |-> "", email |-> "", exp |-> 0, iat |-> 0, jti |-> 0]

\* Claims::new
Claims_new(user_id, email, expiry_seconds, t, id) ==
    [sub |-> user_id, email |-> email, exp |-> t + expiry_seconds, iat |-> t, jti |-> id]

\* serde_json of Claims: name/value pairs in the order of the struct's fields
serialize(c) ==
    << <<"sub", c.sub>>, <<"email", c.email>>, <<"exp", c.exp>>, <<"iat", c.iat>>,
       <<"jti", c.jti>> >>

has_field(payload, name) == \E i \in DOMAIN payload : payload[i][1] = name
field(payload, name) == payload[CHOOSE i \in DOMAIN payload : payload[i][1] = name][2]

\* serde_json into Claims: every field looked up by its name
deserialize(payload) ==
    [sub |-> field(payload, "sub"), email |-> field(payload, "email"),
     exp |-> field(payload, "exp"), iat |-> field(payload, "iat"),
     jti |-> field(payload, "jti")]

parses(payload) ==
    \A n \in {"sub", "email", "exp", "iat", "jti"} : has_field(payload, n)

\* a digest of header.payload that leaves the key out
unkeyed_digest(header, payload, key) == [header |-> header, payload |-> payload, key |-> ""]

\* HMAC-SHA256 over header.payload
hmac(header, payload, key) == [header |-> header, payload |-> payload, key |-> key]

\* the signature of an unsigned token (alg none)
NoSignature == [header |-> "", payload |-> <<>>, key |-> ""]

\* generate_token: encode(&Header::new(HS256), claims, &EncodingKey::from_secret(..))
generate_token(claims, secret) ==
    [header |-> "HS256", payload |-> serialize(claims),
     signature |-> hmac("HS256", serialize(claims), secret)]

NoToken == [header |-> "", payload |-> <<>>, signature |-> NoSignature]

Failure(kind, mac) == [ok |-> FALSE, err |-> kind, claims |-> NoClaims, mac |-> mac]

\* an exp validation without leeway
token_expired_no_leeway(exp, t) == exp <= t

\* exp validation of jsonwebtoken with leeway
token_expired(exp, t) == exp < t - Leeway

\* a verifier that computes and compares the MAC under the header's alg before
\* it looks at the allowed list
validate_token_mac_first(token, secret, t) ==
    IF token.header \notin KnownAlgorithms THEN Failure("Json", FALSE)
    ELSE IF token.signature # hmac(token.header, token.payload, secret)
         THEN Failure("InvalidSignature", TRUE)
    ELSE IF token.header # "HS256" THEN Failure("InvalidAlgorithm", TRUE)
    ELSE IF ~parses(token.payload) THEN Failure("Json", TRUE)
    ELSE IF token_expired(deserialize(token.payload).exp, t)
         THEN Failure("ExpiredSignature", TRUE)
    ELSE [ok |-> TRUE, err |-> "", claims |-> deserialize(token.payload), mac |-> TRUE]

\* validate_token at clock t; mac tells whether a MAC was computed on the way
validate_token(token, secret, t) ==
    IF token.header \notin KnownAlgorithms THEN Failure("Json", FALSE)
    ELSE IF token.header # "HS256" THEN Failure("InvalidAlgorithm", FALSE)
    ELSE IF token.signature # hmac(token.header, token.payload, secret)
         THEN Failure("InvalidSignature", TRUE)
    ELSE IF ~parses(token.payload) THEN Failure("Json", TRUE)
    ELSE IF token_expired(deserialize(token.payload).exp, t)
         THEN Failure("ExpiredSignature", TRUE)
    ELSE [ok |-> TRUE, err |-> "", claims |-> deserialize(token.payload), mac |-> TRUE]

-----------------------------------------------------------------------------
(* jwt-service: the key/value store and the handlers.                      *)

Users == { [user_id |-> "u1", email |-> "u1@x"], [user_id |-> "u2", email |-> "u2@x"] }

NoUser == [user_id |-> "", email |-> ""]

IdleTs == [kind |-> "", pc |-> "idle", token |-> NoToken, handle |-> 0, user_data |-> NoUser,
           claims |-> NoClaims, ttl |-> 0, access_token |-> NoToken, refresh_token |-> 0,
           status |-> 0, error |-> "", valid |-> FALSE, dberr |-> FALSE,
           after200 |-> FALSE, after500 |-> FALSE]

\* rejected: the jti of the JWTs a validation has refused as expired or as revoked
NoLog == [minted |-> 0, consumed |-> {}, reused |-> {}, refreshed |-> {}, failed |-> {},
          revoked |-> {}, rejected |-> {}]

QuietTS == \A r \in Tasks : ts[r].pc # "done"

TsRespond(t, status, error) == [t EXCEPT !.pc = "done", !.status = status, !.error = error]

\* a key with a TTL exists until its expiry instant
live(entry, t) == t < entry.expire_at

\* GET refresh_token:{handle}
redis_get(handle) == { e \in refresh_store : e.handle = handle /\ live(e, now) }

\* a DEL that leaves the key in place
redis_del_lost(handle) == refresh_store

\* DEL refresh_token:{handle}
redis_del(handle) == { e \in refresh_store : e.handle # handle }

\* a SET that adds a key beside the one that is there
set_ex_blacklist_append(jti, seconds) ==
    blacklist \cup {[jti |-> jti, expire_at |-> now + seconds]}

\* a SET EX whose key runs out one second early
set_ex_blacklist_short(jti, seconds) ==
    { e \in blacklist : e.jti # jti } \cup {[jti |-> jti, expire_at |-> now + seconds - 1]}

\* SET key value EX seconds replaces the key
set_ex_blacklist(jti, seconds) ==
    { e \in blacklist : e.jti # jti } \cup {[jti |-> jti, expire_at |-> now + seconds]}

\* EXISTS blacklist:jti:{jti}
is_token_revoked(jti) == \E e \in blacklist : e.jti = jti /\ live(e, now)

\* the jti a token carries, 0 when it carries none
jti_of(token) == IF has_field(token.payload, "jti") THEN field(token.payload, "jti") ELSE 0

\* what a client can present as a JWT: a token it was given, that token re-signed
\* with a key of its own, and that token with the header alg none and no signature
Forged(t) == [t EXCEPT !.signature = hmac(t.header, t.payload, "secret-B")]
Unsigned(t) == [t EXCEPT !.header = "none", !.signature = NoSignature]
Presentable == jwts \cup {Forged(t) : t \in jwts} \cup {Unsigned(t) : t \in jwts}

\* a record written with its two fields exchanged
generate_refresh_token_swapped(handle, user_id, email, expiry_seconds, dbok) ==
    IF dbok
    THEN [ok |-> TRUE, store |-> refresh_store \cup
                                   {[handle |-> handle, user_id |-> email, email |-> user_id,
                                     expire_at |-> now + expiry_seconds]}]
    ELSE [ok |-> FALSE, store |-> refresh_store]

\* a store that reports success for a SET it did not perform
generate_refresh_token_unstored(handle, user_id, email, expiry_seconds, dbok) ==
    [ok |-> TRUE, store |-> IF dbok
                            THEN refresh_store \cup
                                   {[handle |-> handle, user_id |-> user_id, email |-> email,
                                     expire_at |-> now + expiry_seconds]}
                            ELSE refresh_store]

\* refresh.rs 77-104: SET refresh_token:<handle> with a TTL; the handle is
\* returned only when the SET succeeded
generate_refresh_token(handle, user_id, email, expiry_seconds, dbok) ==
    IF dbok
    THEN [ok |-> TRUE, store |-> refresh_store \cup
                                   {[handle |-> handle, user_id |-> user_id, email |-> email,
                                     expire_at |-> now + expiry_seconds]}]
    ELSE [ok |-> FALSE, store |-> refresh_store]

\* POST /auth/token (generate.rs 102-148)
generate_token_handler(r, user, signok, dbok) ==
    /\ QuietTS
    /\ LowestIdle(ts, r)
    /\ uuid < MaxUuid
    /\ rlog.minted < MaxMint
    /\ now <= MaxMintTime
    /\ uuid' = IF signok /\ dbok THEN uuid + 1 ELSE uuid
    /\ LET claims == Claims_new(user.user_id, user.email, AccessTokenExpirySeconds, now, uuid + 1)
           access_token == generate_token(claims, Secret)
           refresh_token == generate_refresh_token(uuid + 1, user.user_id, user.email,
                                                   RefreshTokenExpirySeconds, dbok)
           t == [IdleTs EXCEPT !.kind = "mint", !.user_data = user]
       IN  IF ~signok
           THEN /\ ts' = [ts EXCEPT ![r] = TsRespond(t, 500, "Failed to generate token")]
                /\ UNCHANGED <<refresh_store, jwts>>
           ELSE IF ~refresh_token.ok
           THEN /\ ts' = [ts EXCEPT ![r] = TsRespond([t EXCEPT !.dberr = TRUE], 500,
                                                      "Failed to generate refresh token")]
                /\ refresh_store' = refresh_token.store
                /\ UNCHANGED jwts
           ELSE /\ refresh_store' = refresh_token.store
                /\ jwts' = jwts \cup {access_token}
                /\ ts' = [ts EXCEPT ![r] = TsRespond([t EXCEPT !.claims = claims,
                             !.access_token = access_token, !.refresh_token = uuid + 1], 200, "")]
    /\ rlog' = [rlog EXCEPT !.minted = IF signok /\ dbok THEN @ + 1 ELSE @]
    /\ UNCHANGED <<now, asVars, blacklist, jw, svc, exchanged>>

\* a revocation check that reads a store error as "not revoked"
revocation_answer_open(t, claims, dbok) ==
    IF dbok /\ is_token_revoked(claims.jti)
    THEN TsRespond([t EXCEPT !.claims = claims], 401, "Token has been revoked")
    ELSE TsRespond([t EXCEPT !.claims = claims, !.dberr = ~dbok, !.valid = TRUE], 200, "")

\* validate.rs 140-176: the match on is_token_revoked and the answer
revocation_answer(t, claims, dbok) ==
    IF ~dbok
    THEN TsRespond([t EXCEPT !.claims = claims, !.dberr = TRUE], 500,
                   "Failed to verify token status")
    ELSE IF is_token_revoked(claims.jti)
    THEN TsRespond([t EXCEPT !.claims = claims], 401, "Token has been revoked")
    ELSE TsRespond([t EXCEPT !.claims = claims, !.valid = TRUE], 200, "")

\* POST /auth/validate (validate.rs 120-138): validate_token, then the revocation
\* check
validate_token_handler(r, token, dbok) ==
    /\ QuietTS
    /\ LowestIdle(ts, r)
    /\ LET t == [IdleTs EXCEPT !.kind = "validate", !.token = token,
                   !.after200 = jti_of(token) \in rlog.revoked]
           v == validate_token(token, Secret, now)
       IN  ts' = [ts EXCEPT ![r] =
                    IF ~v.ok THEN TsRespond(t, 401, "Failed to validate JWT token")
                    ELSE revocation_answer(t, v.claims, dbok)]
    /\ UNCHANGED <<now, uuid, asVars, refresh_store, blacklist, jwts, rlog, jw, svc, exchanged>>

\* the same request, with the refusals as expired or as revoked kept in rlog
validate_token_handler_logged(r, token, dbok) ==
    /\ QuietTS
    /\ LowestIdle(ts, r)
    /\ LET t == [IdleTs EXCEPT !.kind = "validate", !.token = token,
                   !.after200 = jti_of(token) \in rlog.revoked]
           v == validate_token(token, Secret, now)
           answer == IF ~v.ok THEN TsRespond(t, 401, "Failed to validate JWT token")
                     ELSE revocation_answer(t, v.claims, dbok)
       IN  /\ ts' = [ts EXCEPT ![r] = answer]
           /\ rlog' = [rlog EXCEPT !.rejected =
                         IF \/ ~v.ok /\ v.err = "ExpiredSignature"
                            \/ v.ok /\ answer.error = "Token has been revoked"
                         THEN @ \cup {jti_of(token)} ELSE @]
    /\ UNCHANGED <<now, uuid, asVars, refresh_store, blacklist, jwts, jw, svc, exchanged>>

\* the handler reading the claims without verifying the token
revoke_start_unverified(r, token) ==
    /\ QuietTS
    /\ LowestIdle(ts, r)
    /\ LET t == [IdleTs EXCEPT !.kind = "revoke", !.token = token]
           v == [ok |-> token.payload # <<>>, claims |-> deserialize(token.payload)]
       IN  ts' = [ts EXCEPT ![r] =
                    IF ~v.ok THEN TsRespond(t, 401, "Invalid token")
                    ELSE IF v.claims.exp > now
                         THEN [t EXCEPT !.pc = "set_ex", !.claims = v.claims,
                                        !.ttl = v.claims.exp - now]
                    ELSE TsRespond(t, 400, "Token already expired")]
    /\ UNCHANGED <<now, uuid, asVars, refresh_store, blacklist, jwts, rlog, jw, svc, exchanged>>

\* POST /auth/revoke (revoke.rs 110-143): validate_token, the remaining TTL
revoke_start(r, token) ==
    /\ QuietTS
    /\ LowestIdle(ts, r)
    /\ LET t == [IdleTs EXCEPT !.kind = "revoke", !.token = token]
           v == validate_token(token, Secret, now)
       IN  ts' = [ts EXCEPT ![r] =
                    IF ~v.ok THEN TsRespond(t, 401, "Invalid token")
                    ELSE IF v.claims.exp > now
                         THEN [t EXCEPT !.pc = "set_ex", !.claims = v.claims,
                                        !.ttl = v.claims.exp - now]
                    ELSE TsRespond(t, 400, "Token already expired")]
    /\ UNCHANGED <<now, uuid, asVars, refresh_store, blacklist, jwts, rlog, jw, svc, exchanged>>

\* revoke.rs 145-166 and revoke_token: SET blacklist:jti:{jti} EX ttl, the answer
revoke_set(r, dbok) ==
    /\ QuietTS
    /\ ts[r].kind = "revoke" /\ ts[r].pc = "set_ex"
    /\ IF dbok
       THEN /\ blacklist' = set_ex_blacklist(ts[r].claims.jti, ts[r].ttl)
            /\ ts' = [ts EXCEPT ![r] = TsRespond(@, 200, "")]
            /\ rlog' = [rlog EXCEPT !.revoked = @ \cup {ts[r].claims.jti}]
       ELSE /\ ts' = [ts EXCEPT ![r] = TsRespond([@ EXCEPT !.dberr = TRUE], 500,
                                                  "Failed to revoke token")]
            /\ UNCHANGED <<blacklist, rlog>>
    /\ UNCHANGED <<now, uuid, asVars, refresh_store, jwts, jw, svc, exchanged>>

\* POST /auth/refresh, validate_refresh_token (refresh.rs 154-165): GET
refresh_get(r, handle, dbok) ==
    /\ QuietTS
    /\ LowestIdle(ts, r)
    /\ LET t == [IdleTs EXCEPT !.kind = "refresh", !.handle = handle,
                   !.after200 = handle \in rlog.refreshed,
                   !.after500 = handle \in rlog.failed]
           found == redis_get(handle)
           e == CHOOSE x \in found : TRUE
       IN  ts' = [ts EXCEPT ![r] =
                    IF ~dbok
                    THEN TsRespond([t EXCEPT !.dberr = TRUE], 401, "Invalid or expired refresh token")
                    ELSE IF found = {}
                    THEN TsRespond(t, 401, "Invalid or expired refresh token")
                    ELSE [t EXCEPT !.pc = "del",
                                   !.user_data = [user_id |-> e.user_id, email |-> e.email]]]
    /\ UNCHANGED <<now, uuid, asVars, refresh_store, blacklist, jwts, rlog, jw, svc, exchanged>>

\* validate_refresh_token (refresh.rs 167-177): DEL; then refresh.rs (handler)
\* 141-160: Claims::new and generate_token
refresh_del(r, dbok, signok) ==
    /\ QuietTS
    /\ ts[r].kind = "refresh" /\ ts[r].pc = "del"
    /\ LET t == ts[r]
           claims == Claims_new(t.user_data.user_id, t.user_data.email,
                                AccessTokenExpirySeconds, now, uuid + 1)
       IN  IF ~dbok
           THEN /\ ts' = [ts EXCEPT ![r] = TsRespond([t EXCEPT !.dberr = TRUE], 401,
                                                      "Invalid or expired refresh token")]
                /\ UNCHANGED <<uuid, refresh_store, rlog>>
           ELSE /\ uuid < MaxUuid
                /\ uuid' = IF signok THEN uuid + 1 ELSE uuid
                /\ refresh_store' = redis_del(t.handle)
                /\ IF signok
                   THEN /\ ts' = [ts EXCEPT ![r] = [t EXCEPT !.pc = "set_ex", !.claims = claims,
                                     !.access_token = generate_token(claims, Secret),
                                     !.refresh_token = uuid + 1]]
                        /\ rlog' = [rlog EXCEPT
                                      !.consumed = @ \cup {t.handle},
                                      !.reused = IF t.handle \in rlog.consumed
                                                 THEN @ \cup {t.handle} ELSE @]
                   ELSE /\ ts' = [ts EXCEPT ![r] =
                                     TsRespond(t, 500, "Failed to generate access token")]
                        /\ rlog' = [rlog EXCEPT
                                      !.consumed = @ \cup {t.handle},
                                      !.reused = IF t.handle \in rlog.consumed
                                                 THEN @ \cup {t.handle} ELSE @,
                                      !.failed = @ \cup {t.handle}]
    /\ UNCHANGED <<now, asVars, blacklist, jwts, jw, svc, exchanged>>

\* refresh.rs (handler) 162-193 and generate_refresh_token: SET the new handle, the answer
refresh_set(r, dbok) ==
    /\ QuietTS
    /\ ts[r].kind = "refresh" /\ ts[r].pc = "set_ex"
    /\ LET t == ts[r]
           refresh_token == generate_refresh_token(t.refresh_token, t.user_data.user_id,
                                                   t.user_data.email,
                                                   RefreshTokenExpirySeconds, dbok)
       IN  IF refresh_token.ok
           THEN /\ refresh_store' = refresh_token.store
                /\ jwts' = jwts \cup {t.access_token}
                /\ ts' = [ts EXCEPT ![r] = TsRespond(t, 200, "")]
                /\ rlog' = [rlog EXCEPT !.refreshed = @ \cup {t.handle}]
           ELSE /\ ts' = [ts EXCEPT ![r] = TsRespond([t EXCEPT !.dberr = TRUE], 500,
                                                      "Failed to generate refresh token")]
                /\ rlog' = [rlog EXCEPT !.failed = @ \cup {t.handle}]
                /\ refresh_store' = refresh_token.store
                /\ UNCHANGED jwts
    /\ UNCHANGED <<now, uuid, asVars, blacklist, jw, svc, exchanged>>

\* the response has been written; the task ends
ts_finish(r) ==
    /\ ts[r].pc = "done"
    /\ ts' = [ts EXCEPT ![r] = IdleTs]
    /\ UNCHANGED <<now, uuid, asVars, refresh_store, blacklist, jwts, rlog, jw, svc, exchanged>>

Mint == \E r \in Tasks, user \in Users, signok, dbok \in BOOLEAN :
            generate_token_handler(r, user, signok, dbok)
Validate == \E r \in Tasks, token \in Presentable, dbok \in BOOLEAN :
                validate_token_handler(r, token, dbok)
RevokeStart == \E r \in Tasks, token \in Presentable : revoke_start(r, token)
RevokeSet == \E r \in Tasks, dbok \in BOOLEAN : revoke_set(r, dbok)
RefreshGet == \E r \in Tasks, handle \in 0..uuid, dbok \in BOOLEAN : refresh_get(r, handle, dbok)
RefreshDel == \E r \in Tasks, dbok, signok \in BOOLEAN : refresh_del(r, dbok, signok)
RefreshSet == \E r \in Tasks, dbok \in BOOLEAN : refresh_set(r, dbok)
TsFinish == \E r \in Tasks : ts_finish(r)

\* instants at which the comparison with the exp of a JWT or with the expiry of a
\* blacklist key changes
TSInstants ==
    UNION { {e - 1, e, e + 1, e + Leeway, e + Leeway + 1} :
              e \in {deserialize(t.payload).exp : t \in jwts} }
    \cup {e.expire_at : e \in blacklist}

\* time passes; the store evicts the keys whose TTL has run out
TickTS ==
    /\ QuietTS
    /\ \E t \in TSInstants :
          /\ t > now /\ t <= AccessTokenExpirySeconds + Leeway + MaxLate
          /\ now' = t
          /\ refresh_store' = { e \in refresh_store : live(e, t) }
          /\ blacklist' = { e \in blacklist : live(e, t) }
    /\ UNCHANGED <<uuid, asVars, jwts, ts, rlog, jw, svc, exchanged>>

InitAS ==
    /\ now = 0
    /\ uuid = 0
    /\ authorization_codes = {}
    /\ access_tokens = {}
    /\ task = [r \in Tasks |-> IdleTask]
    /\ issued = {}
    /\ redirect = NoRedirect
    /\ reply = NoReply
    /\ refresh_store = {}
    /\ blacklist = {}
    /\ jwts = {}
    /\ ts = <<>>
    /\ rlog = NoLog
    /\ jw = <<>>
    /\ svc = <<>>
    /\ exchanged = {}

NextAS ==
    \/ AuthorizePost
    \/ AuthorizeFinish
    \/ TokenStart
    \/ TokenInsert
    \/ TokenDelete
    \/ TokenFinish
    \/ TickAS

Spec == InitAS /\ [][NextAS]_vars

\* the authorization server with clients that disconnect during an exchange
NextAbort ==
    \/ AuthorizePost
    \/ AuthorizeFinish
    \/ TokenStart
    \/ TokenInsert
    \/ TokenDelete
    \/ TokenFinish
    \/ TokenAbort
    \/ TickAS

SpecAbort == InitAS /\ [][NextAbort]_vars

InitTS ==
    /\ now = 0
    /\ uuid = 0
    /\ authorization_codes = {}
    /\ access_tokens = {}
    /\ task = <<>>
    /\ issued = {}
    /\ redirect = NoRedirect
    /\ reply = NoReply
    /\ refresh_store = {}
    /\ blacklist = {}
    /\ jwts = {}
    /\ ts = [r \in Tasks |-> IdleTs]
    /\ rlog = NoLog
    /\ jw = <<>>
    /\ svc = <<>>
    /\ exchanged = {}

\* refresh-token rotation: mint and refresh
NextRefresh ==
    \/ Mint
    \/ RefreshGet
    \/ RefreshDel
    \/ RefreshSet
    \/ TsFinish

SpecRefresh == InitTS /\ [][NextRefresh]_vars

\* revocation: mint, validate and revoke, with the clock
NextRevoke ==
    \/ Mint
    \/ Validate
    \/ RevokeStart
    \/ RevokeSet
    \/ TsFinish
    \/ TickTS

SpecRevoke == InitTS /\ [][NextRevoke]_vars

ValidateLogged == \E r \in Tasks, token \in Presentable, dbok \in BOOLEAN :
                      validate_token_handler_logged(r, token, dbok)

\* revocation again, with the history of the refusals of each JWT
NextValidate ==
    \/ Mint
    \/ ValidateLogged
    \/ RevokeStart
    \/ RevokeSet
    \/ TsFinish
    \/ TickTS

SpecValidate == InitTS /\ [][NextValidate]_vars

\* revoke_start with the history a claim about repeated revocation needs:
\* after200 records that a revocation of the token's jti had been answered 200
\* when this one was taken up
revoke_start_logged(r, token) ==
    /\ QuietTS
    /\ LowestIdle(ts, r)
    /\ LET t == [IdleTs EXCEPT !.kind = "revoke", !.token = token,
                   !.after200 = jti_of(token) \in rlog.revoked]
           v == validate_token(token, Secret, now)
       IN  ts' = [ts EXCEPT ![r] =
                    IF ~v.ok THEN TsRespond(t, 401, "Invalid token")
                    ELSE IF v.claims.exp > now
                         THEN [t EXCEPT !.pc = "set_ex", !.claims = v.claims,
                                        !.ttl = v.claims.exp - now]
                    ELSE TsRespond(t, 400, "Token already expired")]
    /\ UNCHANGED <<now, uuid, asVars, refresh_store, blacklist, jwts, rlog, jw, svc, exchanged>>

RevokeAgain == \E r \in Tasks, token \in jwts : revoke_start_logged(r, token)
ValidateMinted == \E r \in Tasks, token \in jwts, dbok \in BOOLEAN :
                      validate_token_handler(r, token, dbok)

\* the token service with revocations and validations of the JWTs it minted
NextRerevoke ==
    \/ Mint
    \/ ValidateMinted
    \/ RevokeAgain
    \/ RevokeSet
    \/ TsFinish
    \/ TickTS

SpecRerevoke == InitTS /\ [][NextRerevoke]_vars

-----------------------------------------------------------------------------
(* generate_token / validate_token on their own: claims and a key are      *)
(* drawn, the token is signed, possibly re-tagged by its holder, and       *)
(* verified under some key at some instant.                                *)

JwtKeys == {"secret-A", "secret-B"}

\* header alg values a presented token can carry
HeaderAlgs == KnownAlgorithms \cup {"none"}

JwtClaims ==
    { Claims_new(u.user_id, u.email, e, 0, id) :
        u \in Users, e \in {1, AccessTokenExpirySeconds}, id \in 1..MaxUuid }

NoResult == [ok |-> FALSE, err |-> "", claims |-> NoClaims, mac |-> FALSE]

InitJwt ==
    /\ now = 0
    /\ uuid = 0
    /\ authorization_codes = {}
    /\ access_tokens = {}
    /\ task = <<>>
    /\ issued = {}
    /\ redirect = NoRedirect
    /\ reply = NoReply
    /\ refresh_store = {}
    /\ blacklist = {}
    /\ jwts = {}
    /\ ts = <<>>
    /\ rlog = NoLog
    /\ svc = <<>>
    /\ exchanged = {}
    /\ \E c \in JwtClaims, k \in JwtKeys :
          jw = [pc |-> "init", claims |-> c, key |-> k, token |-> NoToken,
                retagged |-> FALSE, vkey |-> "", result |-> NoResult]

\* generate_token(claims, key)
JwtSign ==
    /\ jw.pc = "init"
    /\ jw' = [jw EXCEPT !.pc = "signed", !.token = generate_token(jw.claims, jw.key)]
    /\ UNCHANGED <<now, uuid, asVars, tsVars, svc, exchanged>>

\* the holder rewrites the header alg; the signature is kept, dropped, or (by a
\* holder of the key) computed anew over the new header
JwtRetag ==
    /\ jw.pc = "signed" /\ ~jw.retagged
    /\ \E alg \in HeaderAlgs \ {"HS256"} :
       \E sig \in {jw.token.signature, NoSignature, hmac(alg, jw.token.payload, jw.key)} :
          jw' = [jw EXCEPT !.retagged = TRUE,
                           !.token = [@ EXCEPT !.header = alg, !.signature = sig]]
    /\ UNCHANGED <<now, uuid, asVars, tsVars, svc, exchanged>>

\* validate_token(token, vkey) at the instant now
JwtVerify ==
    /\ jw.pc = "signed"
    /\ \E k \in JwtKeys :
          jw' = [jw EXCEPT !.pc = "verified", !.vkey = k,
                           !.result = validate_token(jw.token, k, now)]
    /\ UNCHANGED <<now, uuid, asVars, tsVars, svc, exchanged>>

\* time passes up to an instant at which the exp comparison changes
TickJwt ==
    /\ jw.pc # "verified"
    /\ \E t \in {jw.claims.exp, jw.claims.exp + Leeway, jw.claims.exp + Leeway + 1} :
          t > now /\ now' = t
    /\ UNCHANGED <<uuid, asVars, tsVars, jw, svc, exchanged, reply>>

NextJwt ==
    \/ JwtSign
    \/ JwtRetag
    \/ JwtVerify
    \/ TickJwt

SpecJwt == InitJwt /\ [][NextJwt]_vars

-----------------------------------------------------------------------------
(* The GET endpoints of the authorization server over a table of access    *)
(* tokens as POST /oauth/token leaves it: rows for user_001, expiring       *)
(* TokenTtl after they were inserted.                                      *)

IssuedTokenRows ==
    { [token |-> k, client_id |-> "demo-client", user_id |-> "user_001",
       scope |-> "profile", expires_at |-> TokenTtl] : k \in 1..MaxUuid }

InitGet ==
    /\ now = 0
    /\ uuid = MaxUuid
    /\ authorization_codes = {}
    /\ access_tokens \in SUBSET IssuedTokenRows
    /\ task = [r \in Tasks |-> IdleTask]
    /\ issued = {}
    /\ redirect = NoRedirect
    /\ reply = NoReply
    /\ refresh_store = {}
    /\ blacklist = {}
    /\ jwts = {}
    /\ ts = <<>>
    /\ rlog = NoLog
    /\ jw = <<>>
    /\ svc = <<>>
    /\ exchanged = {}

NextGet ==
    \/ AuthorizeGet
    \/ UserInfo
    \/ ReplyFinish
    \/ TickGet

SpecGet == InitGet /\ [][NextGet]_vars

-----------------------------------------------------------------------------
(* POST /oauth/token and GET /oauth/userinfo together, over codes as        *)
(* POST /oauth/authorize leaves them: the bearer values presented are the   *)
(* values Uuid::new_v4() has handed out (codes, tokens drawn but not        *)
(* inserted, tokens inserted) and one it has not.                           *)

IssuedCodeRows ==
    { [code |-> k, client_id |-> "demo-client", user_id |-> "user_001",
       redirect_uri |-> "cb", scope |-> "profile", expires_at |-> CodeTtl] :
        k \in 1..(MaxUuid - 1) }

InitUserinfo ==
    /\ now = 0
    /\ \E n \in 1..(MaxUuid - 1) :
          /\ uuid = n
          /\ authorization_codes = { a \in IssuedCodeRows : a.code <= n }
    /\ access_tokens = {}
    /\ task = [r \in Tasks |-> IdleTask]
    /\ issued = {}
    /\ redirect = NoRedirect
    /\ reply = NoReply
    /\ refresh_store = {}
    /\ blacklist = {}
    /\ jwts = {}
    /\ ts = <<>>
    /\ rlog = NoLog
    /\ jw = <<>>
    /\ svc = <<>>
    /\ exchanged = {}

UserInfoDrawn == \E k \in 0..MaxUuid, dbok1, dbok2 \in BOOLEAN :
                     userinfo_handler([present |-> TRUE, scheme |-> "Bearer", token |-> k],
                                      dbok1, dbok2)

\* a response of GET /oauth/userinfo is written out before any other step
NextUserinfo ==
    \/ reply = NoReply /\ TokenStart
    \/ reply = NoReply /\ TokenInsert
    \/ reply = NoReply /\ TokenDelete
    \/ reply = NoReply /\ TokenFinish
    \/ UserInfoDrawn
    \/ ReplyFinish
    \/ Quiet /\ TickGet

SpecUserinfo == InitUserinfo /\ [][NextUserinfo]_vars

-----------------------------------------------------------------------------
(* jwt-service start-up: main reads the process environment through        *)
(* Config::from_env and serves with the Config it got; the handlers build  *)
(* Claims with config.jwt.access_token_expiry_seconds.  The value of an    *)
(* environment variable is the sequence of its characters.  The texts and  *)
(* instants drawn keep every timestamp non-negative and far below 2^63, so *)
(* the cast `as usize` and the range of i64 do not come into play.         *)

Unset == [set |-> FALSE, text |-> <<>>]
Text(t) == [set |-> TRUE, text |-> t]

\* env::var(name).unwrap_or_else(|_| default)
var_or(v, default) == IF v.set THEN v.text ELSE default

DecimalDigits == <<"0", "1", "2", "3", "4", "5", "6", "7", "8", "9">>
is_digit(c) == \E i \in DOMAIN DecimalDigits : DecimalDigits[i] = c
digit_value(c) == (CHOOSE i \in DOMAIN DecimalDigits : DecimalDigits[i] = c) - 1

\* the number a non-empty run of decimal digits denotes
RECURSIVE to_number(_)
to_number(digits) ==
    IF digits = <<>> THEN 0
    ELSE 10 * to_number(SubSeq(digits, 1, Len(digits) - 1)) + digit_value(digits[Len(digits)])

\* str::parse::<i64>: an optional + or -, then one or more decimal digits
parse_i64(text) ==
    LET signed == Len(text) > 0 /\ text[1] \in {"+", "-"}
        digits == IF signed THEN Tail(text) ELSE text
    IN  IF digits = <<>> \/ \E i \in DOMAIN digits : ~is_digit(digits[i])
        THEN [ok |-> FALSE, value |-> 0]
        ELSE [ok |-> TRUE,
              value |-> IF signed /\ text[1] = "-" THEN 0 - to_number(digits)
                        ELSE to_number(digits)]

\* str::parse::<u16>: an optional +, then one or more decimal digits, at most 65535
parse_u16(text) ==
    LET signed == Len(text) > 0 /\ text[1] = "+"
        digits == IF signed THEN Tail(text) ELSE text
    IN  IF digits = <<>> \/ \E i \in DOMAIN digits : ~is_digit(digits[i])
        THEN [ok |-> FALSE, value |-> 0]
        ELSE IF to_number(digits) > 65535
        THEN [ok |-> FALSE, value |-> 0]
        ELSE [ok |-> TRUE, value |-> to_number(digits)]

NoConfig == [server |-> [port |-> 0],
             jwt |-> [secret |-> <<>>, access_token_expiry_seconds |-> 0,
                      refresh_token_expiry_seconds |-> 0]]

\* a loader that takes a secret of any length
from_env_any_secret(env) ==
    LET port == parse_u16(var_or(env.JWT_SERVICE_PORT, <<"8", "0", "8", "3">>))
        access == parse_i64(var_or(env.JWT_ACCESS_TOKEN_EXPIRY_SECONDS, <<"9", "0", "0">>))
        refresh == parse_i64(var_or(env.JWT_REFRESH_TOKEN_EXPIRY_SECONDS,
                                    <<"6", "0", "4", "8", "0", "0">>))
        Err(e) == [ok |-> FALSE, error |-> e, config |-> NoConfig]
    IN  IF ~port.ok THEN Err("Invalid JWT_SERVICE_PORT")
        ELSE IF ~env.JWT_SECRET.set THEN Err("JWT_SECRET environment variable required")
        ELSE IF ~access.ok THEN Err("Invalid JWT_ACCESS_TOKEN_EXPIRY_SECONDS")
        ELSE IF ~refresh.ok THEN Err("Invalid JWT_REFRESH_TOKEN_EXPIRY_SECONDS")
        ELSE [ok |-> TRUE, error |-> "",
              config |-> [server |-> [port |-> port.value],
                          jwt |-> [secret |-> env.JWT_SECRET.text,
                                   access_token_expiry_seconds |-> access.value,
                                   refresh_token_expiry_seconds |-> refresh.value]]]

\* Config::from_env (config.rs 79-116); host and redis url are taken as they are
from_env(env) ==
    LET port == parse_u16(var_or(env.JWT_SERVICE_PORT, <<"8", "0", "8", "3">>))
        access == parse_i64(var_or(env.JWT_ACCESS_TOKEN_EXPIRY_SECONDS, <<"9", "0", "0">>))
        refresh == parse_i64(var_or(env.JWT_REFRESH_TOKEN_EXPIRY_SECONDS,
                                    <<"6", "0", "4", "8", "0", "0">>))
        Err(e) == [ok |-> FALSE, error |-> e, config |-> NoConfig]
    IN  IF ~port.ok THEN Err("Invalid JWT_SERVICE_PORT")
        ELSE IF ~env.JWT_SECRET.set THEN Err("JWT_SECRET environment variable required")
        ELSE IF ~access.ok THEN Err("Invalid JWT_ACCESS_TOKEN_EXPIRY_SECONDS")
        ELSE IF ~refresh.ok THEN Err("Invalid JWT_REFRESH_TOKEN_EXPIRY_SECONDS")
        ELSE IF Len(env.JWT_SECRET.text) < 32
        THEN Err("JWT_SECRET must be at least 32 characters (256 bits) for security")
        ELSE [ok |-> TRUE, error |-> "",
              config |-> [server |-> [port |-> port.value],
                          jwt |-> [secret |-> env.JWT_SECRET.text,
                                   access_token_expiry_seconds |-> access.value,
                                   refresh_token_expiry_seconds |-> refresh.value]]]

\* the environments a deployment may start the service in
Environments ==
    [JWT_SERVICE_PORT : {Unset, Text(<<"7", "0", "0", "0", "0">>)},
     JWT_SECRET : {Unset, Text([i \in 1..31 |-> "k"]), Text([i \in 1..32 |-> "k"])},
     JWT_ACCESS_TOKEN_EXPIRY_SECONDS :
         {Unset, Text(<<"9", "0", "0">>), Text(<<"1">>), Text(<<"0">>), Text(<<"-", "1">>),
          Text(<<"1", "5", "m">>), Text(<<>>)},
     JWT_REFRESH_TOKEN_EXPIRY_SECONDS :
         {Unset, Text(<<"6", "0", "4", "8", "0", "0">>), Text(<<"7", "d">>)}]

InitConfig ==
    /\ now = 1
    /\ uuid = 0
    /\ authorization_codes = {}
    /\ access_tokens = {}
    /\ task = <<>>
    /\ issued = {}
    /\ redirect = NoRedirect
    /\ reply = NoReply
    /\ refresh_store = {}
    /\ blacklist = {}
    /\ jwts = {}
    /\ ts = <<>>
    /\ rlog = NoLog
    /\ jw = <<>>
    /\ exchanged = {}
    /\ \E env \in Environments :
          svc = [pc |-> "start", env |-> env, config |-> NoConfig, error |-> "",
                 at |-> "", claims |-> NoClaims, token |-> NoToken, validated |-> FALSE]

\* main.rs 39-40: the Config is loaded, or main returns the error
LoadConfig ==
    /\ svc.pc = "start"
    /\ LET loaded == from_env(svc.env)
       IN  svc' = [svc EXCEPT !.pc = IF loaded.ok THEN "serving" ELSE "exited",
                              !.config = loaded.config, !.error = loaded.error]
    /\ UNCHANGED <<now, uuid, asVars, tsVars, jw, exchanged>>

\* generate.rs 107-121: the Claims of a minted access token, and the token signed
\* with the configured secret
ConfigMint ==
    /\ svc.pc = "serving"
    /\ uuid < MaxUuid
    /\ uuid' = uuid + 1
    /\ \E user \in Users :
          LET claims == Claims_new(user.user_id, user.email,
                                   svc.config.jwt.access_token_expiry_seconds,
                                   now, uuid + 1)
          IN  svc' = [svc EXCEPT !.at = "mint", !.claims = claims,
                        !.token = generate_token(claims, svc.config.jwt.secret),
                        !.validated = FALSE]
    /\ UNCHANGED <<now, asVars, tsVars, jw, exchanged>>

\* handlers/refresh.rs 142-160: the Claims of the access token of a rotation, and
\* the token signed with the configured secret
ConfigRefresh ==
    /\ svc.pc = "serving"
    /\ uuid < MaxUuid
    /\ uuid' = uuid + 1
    /\ \E user \in Users :
          LET claims == Claims_new(user.user_id, user.email,
                                   svc.config.jwt.access_token_expiry_seconds,
                                   now, uuid + 1)
          IN  svc' = [svc EXCEPT !.at = "refresh", !.claims = claims,
                        !.token = generate_token(claims, svc.config.jwt.secret),
                        !.validated = FALSE]
    /\ UNCHANGED <<now, asVars, tsVars, jw, exchanged>>

\* validate.rs 126: validate_token under the configured secret
ConfigValidate ==
    /\ svc.pc = "serving"
    /\ svc.token # NoToken
    /\ ~svc.validated
    /\ validate_token(svc.token, svc.config.jwt.secret, now).ok
    /\ svc' = [svc EXCEPT !.validated = TRUE]
    /\ UNCHANGED <<now, uuid, asVars, tsVars, jw, exchanged>>

TickConfig ==
    /\ now <= MaxLate
    /\ now' = now + 1
    /\ UNCHANGED <<uuid, asVars, tsVars, jw, svc, exchanged>>

NextConfig ==
    \/ LoadConfig
    \/ ConfigMint
    \/ ConfigRefresh
    \/ ConfigValidate
    \/ TickConfig

SpecConfig == InitConfig /\ [][NextConfig]_vars

-----------------------------------------------------------------------------
(* The gate of the protected route (handlers/protected.rs) over the JWTs   *)
(* and the blacklist as minting and revoking leave them: JWTs minted at 0, *)
(* and for some of them a blacklist key that lasts until their exp.        *)

\* the Authorization headers the model sends to the protected route
GateHeaders ==
    { [present |-> FALSE, scheme |-> "", token |-> NoToken],
      [present |-> TRUE, scheme |-> "Basic", token |-> NoToken] }
    \cup { [present |-> TRUE, scheme |-> "Bearer", token |-> t] : t \in Presentable }

\* what the gate answers: the status, whether next.run was called and the Claims
\* that were inserted into the request extensions
Gate(h, status, next_ran, claims, dberr) ==
    [endpoint |-> "protected", authorization |-> h, status |-> status,
     next_ran |-> next_ran, claims |-> claims, dberr |-> dberr]

\* a gate that lets the request through when the revocation check fails
jwt_auth_middleware_open(h, dbok) ==
    LET v == validate_token(h.token, Secret, now)
    IN  IF ~h.present THEN Gate(h, 401, FALSE, NoClaims, FALSE)
        ELSE IF h.scheme # "Bearer" THEN Gate(h, 401, FALSE, NoClaims, FALSE)
        ELSE IF ~v.ok THEN Gate(h, 401, FALSE, NoClaims, FALSE)
        ELSE IF dbok /\ is_token_revoked(v.claims.jti) THEN Gate(h, 401, FALSE, NoClaims, FALSE)
        ELSE Gate(h, 200, TRUE, v.claims, ~dbok)

\* protected.rs 66-113: the header, the Bearer prefix, validate_token,
\* is_token_revoked, then the Claims are attached and the handler runs
jwt_auth_middleware(h, dbok) ==
    LET v == validate_token(h.token, Secret, now)
    IN  IF ~h.present THEN Gate(h, 401, FALSE, NoClaims, FALSE)
        ELSE IF h.scheme # "Bearer" THEN Gate(h, 401, FALSE, NoClaims, FALSE)
        ELSE IF ~v.ok THEN Gate(h, 401, FALSE, NoClaims, FALSE)
        ELSE IF ~dbok THEN Gate(h, 500, FALSE, NoClaims, TRUE)
        ELSE IF is_token_revoked(v.claims.jti) THEN Gate(h, 401, FALSE, NoClaims, FALSE)
        ELSE Gate(h, 200, TRUE, v.claims, FALSE)

\* GET /protected
Protected ==
    /\ reply = NoReply
    /\ \E h \in GateHeaders, dbok \in BOOLEAN : reply' = jwt_auth_middleware(h, dbok)
    /\ UNCHANGED <<now, uuid, authorization_codes, access_tokens, task, issued, redirect,
                   tsVars, jw, svc, exchanged>>

\* time passes up to an instant at which the exp comparison or a blacklist key
\* changes; the store evicts the keys whose TTL has run out
TickProtected ==
    /\ reply = NoReply
    /\ \E t \in TSInstants :
          /\ t > now /\ t <= AccessTokenExpirySeconds + Leeway + MaxLate
          /\ now' = t
          /\ blacklist' = { e \in blacklist : live(e, t) }
    /\ UNCHANGED <<uuid, asVars, refresh_store, jwts, ts, rlog, jw, svc, exchanged>>

\* the JWTs POST /auth/token hands out at instant 0
MintedJwts ==
    { generate_token(Claims_new("u1", "u1@x", AccessTokenExpirySeconds, 0, 1), Secret),
      generate_token(Claims_new("u2", "u2@x", AccessTokenExpirySeconds, 0, 2), Secret) }

InitProtected ==
    /\ now = 0
    /\ uuid = MaxUuid
    /\ authorization_codes = {}
    /\ access_tokens = {}
    /\ task = <<>>
    /\ issued = {}
    /\ redirect = NoRedirect
    /\ reply = NoReply
    /\ refresh_store = {}
    /\ jwts \in SUBSET MintedJwts /\ jwts # {}
    /\ blacklist \in SUBSET { [jti |-> jti_of(t), expire_at |-> deserialize(t.payload).exp] :
                                t \in jwts }
    /\ ts = <<>>
    /\ rlog = NoLog
    /\ jw = <<>>
    /\ svc = <<>>
    /\ exchanged = {}

NextProtected ==
    \/ Protected
    \/ ReplyFinish
    \/ TickProtected

SpecProtected == InitProtected /\ [][NextProtected]_vars

-----------------------------------------------------------------------------
(* The comparison of client secrets at token.rs 168, byte by byte.  A      *)
(* secret is the sequence of its bytes.  String's != compares the lengths  *)
(* and, when they agree, hands the bytes to memcmp; how far memcmp reads   *)
(* past the first difference is left to the C library: it may stop there   *)
(* or read to the end.  steps is the number of bytes read.                 *)

SecretBytes == {"a", "b"}

SecretTexts == UNION { [1..n -> SecretBytes] : n \in 0..MaxSecretLen }

\* the position of the first byte in which a and b, of one length, differ;
\* their length when they are equal
first_difference(a, b) ==
    IF a = b THEN Len(a)
    ELSE CHOOSE i \in 1..Len(a) : a[i] # b[i] /\ \A j \in 1..(i - 1) : a[j] = b[j]

\* client.client_secret != params.client_secret
secret_ne(stored, presented, early_exit) ==
    IF Len(stored) # Len(presented) THEN [ne |-> TRUE, steps |-> 0]
    ELSE [ne |-> stored # presented,
          steps |-> IF early_exit THEN first_difference(stored, presented) ELSE Len(stored)]

\* one stored secret, two requests presenting secrets of one length
InitCompare ==
    /\ now = 0
    /\ uuid = 0
    /\ authorization_codes = {}
    /\ access_tokens = {}
    /\ task = <<>>
    /\ issued = {}
    /\ redirect = NoRedirect
    /\ reply = NoReply
    /\ refresh_store = {}
    /\ blacklist = {}
    /\ jwts = {}
    /\ ts = <<>>
    /\ rlog = NoLog
    /\ svc = <<>>
    /\ exchanged = {}
    /\ \E stored, p1, p2 \in SecretTexts :
          /\ Len(p1) = Len(p2)
          /\ jw = [pc |-> "init", stored |-> stored, presented |-> <<p1, p2>>,
                   compared |-> <<>>]

\* token.rs 168, once for each request, in one build of the server
CompareSecrets ==
    /\ jw.pc = "init"
    /\ \E early_exit \in BOOLEAN :
          jw' = [jw EXCEPT !.pc = "compared",
                   !.compared = [i \in 1..2 |->
                                   secret_ne(jw.stored, jw.presented[i], early_exit)]]
    /\ UNCHANGED <<now, uuid, asVars, tsVars, svc, exchanged>>

NextCompare == CompareSecrets

SpecCompare == InitCompare /\ [][NextCompare]_vars

-----------------------------------------------------------------------------
(* Claims about the authorization server, checked under Spec.              *)

\* the request a registered client sends for code k with its own credentials and
\* the redirect_uri the code was issued for
ValidExchange(p) ==
    /\ p.wellformed /\ p.grant_type = "authorization_code"
    /\ p.client_id = "demo-client" /\ p.client_secret = "s3cret"

\* C1: of the POST /oauth/token requests that present one code concurrently (none
\* of them began after another had been answered 200) and whose store statements
\* all succeed, at most one is answered 200
C1_AtMostOneConcurrentExchange ==
    \A i, j \in issued :
        (i.code = j.code /\ ~i.prior200 /\ ~j.prior200 /\ ~i.dberr /\ ~j.dberr) => i = j

\* C5: when POST /oauth/token answers 200 for code c, no row of
\* authorization_codes holds c
C5_CodeGoneAtResponse ==
    \A r \in Tasks :
        (task[r].pc = "done" /\ task[r].status = 200)
            => \A a \in authorization_codes : a.code # task[r].params.code

\* C6: a POST /oauth/token request that begins after a 200 for the same code, with
\* the valid client credentials, inserts no access token and, when its own store
\* statements succeed, is answered 400 invalid_grant
C6_ReplayRejected ==
    \A r \in Tasks :
        (task[r].prior200 /\ ValidExchange(task[r].params))
            => /\ task[r].pc \notin {"insert_token", "delete_code"}
               /\ (task[r].pc = "done" /\ ~task[r].dberr)
                      => (task[r].status = 400 /\ task[r].error = "invalid_grant")

\* C15: the redirect POST /oauth/authorize answers with, in each outcome (deny,
\* approve with the insert succeeding, approve with the insert failing), carries
\* the parameter state with the value the form carried
C15_StateEchoed ==
    redirect # NoRedirect
        => query_param(redirect.location, "state")
              = [present |-> TRUE, value |-> redirect.form.state]

\* C12: POST /oauth/token accepts a code only if its expires_at is greater than
\* the clock the handler reads: a request that got past the expiry check (its
\* access token expires TokenTtl after that clock reading) holds a code row with
\* expires_at > that reading
C12_CodeExpiredAtExpiresAt ==
    \A r \in Tasks :
        task[r].auth_code # NoCode
            => task[r].auth_code.expires_at > task[r].expires_at - TokenTtl

\* what the order of checks of POST /oauth/token prescribes for a request p that
\* no store error interrupts: the status, error and message of the first failing
\* check and the number of store statements issued up to it; status 0 when every
\* check passes. The expiry check is the handler's own test.
FirstFailingCheck(p) ==
    LET client == {c \in clients : c.client_id = p.client_id}
        rows == {a \in authorization_codes : a.code = p.code /\ a.client_id = p.client_id}
        Answer(st, e, d, n) == [status |-> st, error |-> e, description |-> d, stmts |-> n]
    IN  IF ~p.wellformed THEN Answer(400, "invalid_request", "Malformed request", 0)
        ELSE IF p.grant_type # "authorization_code"
        THEN Answer(400, "unsupported_grant_type",
                    "Only authorization_code grant type is supported", 0)
        ELSE IF client = {} THEN Answer(401, "invalid_client", "Client not found", 1)
        ELSE IF \A c \in client : c.client_secret # p.client_secret
        THEN Answer(401, "invalid_client", "Invalid client credentials", 1)
        ELSE IF rows = {} THEN Answer(400, "invalid_grant", "Authorization code not found", 2)
        ELSE IF \A a \in rows : code_expired(a.expires_at, now)
        THEN Answer(400, "invalid_grant", "Authorization code has expired", 2)
        ELSE IF \A a \in rows : a.redirect_uri # p.redirect_uri
        THEN Answer(400, "invalid_grant", "Redirect URI mismatch", 2)
        ELSE Answer(0, "", "", 2)

\* C17: every step that takes up a request to POST /oauth/token and meets no
\* store error answers it by the first failing check in the order body parse,
\* grant_type, client lookup, client_secret, code lookup, code expiry,
\* redirect_uri, having issued no store statement beyond the one that check
\* needed; it proceeds to the token insert only when every check passes.
C17_FirstFailingCheckAnswers ==
    [][\A r \in Tasks :
          (task[r].pc = "idle" /\ task'[r].pc # "idle" /\ ~task'[r].dberr)
              => LET t == task'[r]
                     first == FirstFailingCheck(t.params)
                 IN  IF first.status # 0
                     THEN /\ t.pc = "done"
                          /\ [status |-> t.status, error |-> t.error,
                              description |-> t.description, stmts |-> t.stmts] = first
                          /\ t.access_token = 0
                     ELSE /\ t.pc = "insert_token"
                          /\ t.stmts = 2]_vars

\* a request failing two checks at once has been answered by the earlier one
C17_Witness ==
    \E r \in Tasks :
        /\ task[r].pc = "done"
        /\ task[r].params.grant_type = "password"
        /\ task[r].params.client_id = "ghost"
        /\ task[r].status = 400
        /\ task[r].error = "unsupported_grant_type"
        /\ task[r].stmts = 0

\* C18: with valid client credentials and an existing unexpired code, a
\* redirect_uri different from the one stored with the code is answered
\* 400 invalid_grant, and no exchange goes on to insert an access token for a
\* redirect_uri other than the one stored with its code.
C18_RedirectMismatchRejected ==
    \A r \in Tasks :
        /\ (/\ task[r].pc = "done"
            /\ ~task[r].dberr
            /\ task[r].params.wellformed
            /\ task[r].params.grant_type = "authorization_code"
            /\ \E c \in clients : /\ c.client_id = task[r].params.client_id
                                  /\ c.client_secret = task[r].params.client_secret
            /\ \E a \in authorization_codes :
                   /\ a.code = task[r].params.code
                   /\ a.client_id = task[r].params.client_id
                   /\ a.expires_at > now
                   /\ a.redirect_uri # task[r].params.redirect_uri)
               => /\ task[r].status = 400
                  /\ task[r].error = "invalid_grant"
                  /\ task[r].access_token = 0
                  /\ \A t \in access_tokens : t.token # task[r].access_token
        /\ task[r].pc \in {"insert_token", "delete_code"}
               => task[r].auth_code.redirect_uri = task[r].params.redirect_uri

\* the tampered exchange of a live code has been refused
C18_Witness ==
    \E r \in Tasks : \E a \in authorization_codes :
        /\ task[r].pc = "done"
        /\ task[r].params.code = a.code
        /\ task[r].params.client_id = a.client_id
        /\ a.expires_at > now
        /\ a.redirect_uri = "cb"
        /\ task[r].params.redirect_uri = "evil"
        /\ task[r].description = "Redirect URI mismatch"
        /\ task[r].status = 400

\* C24: over any sequence of requests, with tasks dropped after their insert
\* committed and with deletes that fail, at most one row of access_tokens is
\* ever inserted on behalf of one authorization code.
C24_OneInsertPerCode ==
    \A a, b \in exchanged : a.code = b.code => a = b

\* C28: POST /oauth/authorize inserts an authorization code only for the action
\* approve: a request with the action deny, or with any other action, inserts no
\* row into authorization_codes and its redirect carries no code parameter.
C28_CodeOnlyOnApprove ==
    [][(redirect = NoRedirect /\ redirect' # NoRedirect /\ redirect'.form.action # "approve")
          => /\ authorization_codes' = authorization_codes
             /\ ~query_param(redirect'.location, "code").present]_vars

\* C29: every code parameter of a POST /oauth/authorize redirect names, at the
\* time of the redirect, a row of authorization_codes that holds the form's
\* client_id, redirect_uri and scope and expires 5 minutes after it was issued;
\* when the insert failed the redirect carries error=server_error and no code
\* parameter.
C29_DeliveredCodeIsStored ==
    redirect # NoRedirect
        => LET ps == query_pairs(redirect.location)
               codes == { SubSeq(ps[i], 3, Len(ps[i])) :
                            i \in { k \in DOMAIN ps : Len(ps[k]) >= 2 /\ ps[k][1] = "code"
                                                      /\ ps[k][2] = "=" } }
           IN  /\ \A c \in codes :
                     \E a \in authorization_codes :
                         /\ c = <<ToString(a.code)>>
                         /\ a.client_id = redirect.form.client_id
                         /\ a.redirect_uri = redirect.form.redirect_uri
                         /\ a.scope = redirect.form.scope
                         /\ a.expires_at = now + CodeTtl
               /\ redirect.dberr
                     => /\ query_param(redirect.location, "error")
                            = [present |-> TRUE, value |-> <<"server_error">>]
                        /\ codes = {}

\* C30: a request that authenticates as a registered client and presents a code
\* that was issued for a different client is answered 400 invalid_grant after its
\* two SELECTs, with no access token and no write to the store (the code's row
\* stays for the client it was issued for); no exchange goes on with the code of
\* another client, and every row of access_tokens belongs to a client that codes
\* were issued for.
C30_CodeBoundToClient ==
    /\ \A r \in Tasks :
          /\ (/\ task[r].pc = "done"
              /\ ~task[r].dberr
              /\ task[r].params.wellformed
              /\ task[r].params.grant_type = "authorization_code"
              /\ \E c \in clients : /\ c.client_id = task[r].params.client_id
                                    /\ c.client_secret = task[r].params.client_secret
              /\ \E a \in authorization_codes :
                     /\ a.code = task[r].params.code
                     /\ a.client_id # task[r].params.client_id)
                 => /\ task[r].status = 400
                    /\ task[r].error = "invalid_grant"
                    /\ task[r].access_token = 0
                    /\ task[r].stmts = 2
                    /\ \A t \in access_tokens : t.client_id # task[r].params.client_id
          /\ task[r].pc \in {"insert_token", "delete_code"}
                 => task[r].auth_code.client_id = task[r].params.client_id
    /\ \A t \in access_tokens : \E f \in AuthorizeForms : t.client_id = f.client_id

\* the other registered client presented a live code of demo-client, with the
\* redirect_uri stored with it, and was refused
C30_Witness ==
    \E r \in Tasks : \E a \in authorization_codes :
        /\ task[r].pc = "done"
        /\ task[r].params.client_id = "other-client"
        /\ task[r].params.client_secret = "s3cret2"
        /\ task[r].params.code = a.code
        /\ a.client_id = "demo-client"
        /\ a.redirect_uri = task[r].params.redirect_uri
        /\ a.expires_at > now
        /\ task[r].status = 400
        /\ task[r].error = "invalid_grant"
        /\ task[r].description = "Authorization code not found"

C39_CodesOnlyForRegisteredRedirect ==
    /\ \A a \in authorization_codes :
          \E c \in clients : c.client_id = a.client_id /\ c.redirect_uri = a.redirect_uri
    /\ (redirect # NoRedirect /\ query_param(redirect.location, "code").present)
          => \E c \in clients : /\ c.client_id = redirect.form.client_id
                                /\ redirect.location[1] = c.redirect_uri

\* C31: expired is a terminal state of an authorization code. A code has one row,
\* whose expires_at is never rewritten; in every state in which now has passed it,
\* every POST /oauth/token that names the code is refused by the checks whatever
\* the store answers, with 400 invalid_grant when the request passes the checks
\* that come before the code's; and every exchange that goes on to the insert
\* began no later than the expires_at of its code.
C31_ExpiredIsTerminal ==
    /\ \A a, b \in authorization_codes : a.code = b.code => a = b
    /\ \A a \in authorization_codes :
          a.expires_at < now
              => \A p \in RequestsFor(a.code) : \A dbok1, dbok2 \in BOOLEAN :
                    LET c == token_checks(p, dbok1, dbok2)
                    IN  /\ c.status # 0
                        /\ (/\ dbok1 /\ dbok2
                            /\ p.grant_type = "authorization_code"
                            /\ \E k \in clients : /\ k.client_id = p.client_id
                                                  /\ k.client_secret = p.client_secret)
                               => c.status = 400 /\ c.error = "invalid_grant"
    /\ \A r \in Tasks :
          /\ task[r].auth_code # NoCode
                 => task[r].auth_code.expires_at >= task[r].expires_at - TokenTtl
          /\ (task[r].pc = "done" /\ task[r].description = "Authorization code has expired")
                 => /\ task[r].status = 400
                    /\ task[r].error = "invalid_grant"
                    /\ task[r].access_token = 0
                    /\ \A t \in access_tokens : t.token # task[r].access_token

\* a valid request for a code whose expires_at has passed was refused, and the
\* row is still there
C31_Witness ==
    \E r \in Tasks : \E a \in authorization_codes :
        /\ task[r].pc = "done"
        /\ ValidExchange(task[r].params)
        /\ task[r].params.code = a.code
        /\ task[r].params.redirect_uri = a.redirect_uri
        /\ a.expires_at < now
        /\ task[r].status = 400
        /\ task[r].description = "Authorization code has expired"

\* C31 as stated: every POST /oauth/token that names a code whose expires_at has
\* passed, and whose store statements succeed, is answered 400 invalid_grant
C31_ExpiredAlways400InvalidGrant ==
    [][\A r \in Tasks :
          (/\ task[r].pc = "idle"
           /\ task'[r].pc # "idle"
           /\ ~task'[r].dberr
           /\ \E a \in authorization_codes :
                  a.code = task'[r].params.code /\ a.expires_at < now)
              => task'[r].status = 400 /\ task'[r].error = "invalid_grant"]_vars

-----------------------------------------------------------------------------
(* Claims about refresh-token rotation, checked under SpecRefresh.         *)

\* C2: for every refresh handle, of the validate_refresh_token calls that present
\* it at most one returns the stored user data: no handle is consumed by a second
\* call after a first call has consumed it
C2_AtMostOneConsumer == rlog.reused = {}

C8_RotationForward ==
    \A r \in Tasks :
        ts[r].kind = "refresh" =>
            /\ ts[r].pc = "set_ex" => redis_get(ts[r].handle) = {}
            /\ (ts[r].pc = "done" /\ ts[r].status = 500) => redis_get(ts[r].handle) = {}
            /\ (ts[r].pc = "done" /\ ts[r].status = 200) => ts[r].handle \notin rlog.failed

\* C19: every answer of POST /auth/token is either 200 with an access token and a
\* refresh token whose record is in the store, or 500 with neither token; a 500
\* leaves the store of refresh records as it was, whether the signer or the store
\* failed.
C19_NoPartialResponse ==
    [][\A r \in Tasks :
          (ts[r].pc = "idle" /\ ts'[r].kind = "mint")
              => LET t == ts'[r]
                 IN  \/ /\ t.status = 200
                        /\ t.access_token # NoToken
                        /\ validate_token(t.access_token, Secret, now).ok
                        /\ t.refresh_token # 0
                        /\ \E e \in refresh_store' :
                               /\ e.handle = t.refresh_token
                               /\ e.user_id = t.user_data.user_id
                               /\ e.email = t.user_data.email
                               /\ live(e, now)
                     \/ /\ t.status = 500
                        /\ t.access_token = NoToken
                        /\ t.refresh_token = 0
                        /\ refresh_store' = refresh_store
                        /\ jwts' = jwts]_vars

\* the store failed after the access token was signed, and the answer carries
\* no token
C19_Witness ==
    \E r \in Tasks :
        /\ ts[r].kind = "mint"
        /\ ts[r].pc = "done"
        /\ ts[r].status = 500
        /\ ts[r].error = "Failed to generate refresh token"
        /\ ts[r].access_token = NoToken
        /\ ts[r].refresh_token = 0

\* C38: a successful POST /auth/refresh keeps the identity of its lineage: the
\* user_id and email the request read are those stored under the handle it
\* presented, the new JWT's sub and email and the new refresh record's user_id
\* and email are those it read, and so every JWT and every refresh record
\* descended from one POST /auth/token carry one identity, that of a user.
C38_RefreshKeepsIdentity ==
    /\ \A r \in Tasks :
          ts[r].kind = "refresh" =>
              /\ ts[r].pc \in {"del", "set_ex"} \/ (ts[r].pc = "done" /\ ts[r].status = 200)
                     => /\ ts[r].user_data \in Users
                        /\ \A e \in refresh_store :
                               e.handle = ts[r].handle
                                   => /\ e.user_id = ts[r].user_data.user_id
                                      /\ e.email = ts[r].user_data.email
              /\ ts[r].pc = "set_ex" \/ (ts[r].pc = "done" /\ ts[r].status = 200)
                     => /\ deserialize(ts[r].access_token.payload).sub = ts[r].user_data.user_id
                        /\ deserialize(ts[r].access_token.payload).email = ts[r].user_data.email
              /\ (ts[r].pc = "done" /\ ts[r].status = 200)
                     => /\ ts[r].access_token \in jwts
                        /\ \E e \in refresh_store :
                               /\ e.handle = ts[r].refresh_token
                               /\ e.user_id = ts[r].user_data.user_id
                               /\ e.email = ts[r].user_data.email
    /\ rlog.minted <= 1
          => /\ \A e, f \in refresh_store : e.user_id = f.user_id /\ e.email = f.email
             /\ \A t \in jwts : \A e \in refresh_store :
                    /\ deserialize(t.payload).sub = e.user_id
                    /\ deserialize(t.payload).email = e.email
             /\ \A t, u \in jwts :
                    /\ deserialize(t.payload).sub = deserialize(u.payload).sub
                    /\ deserialize(t.payload).email = deserialize(u.payload).email

\* a refresh of a handle of user u2 has succeeded: two JWTs and the new record
C38_Witness ==
    \E r \in Tasks :
        /\ ts[r].kind = "refresh" /\ ts[r].pc = "done" /\ ts[r].status = 200
        /\ ts[r].user_data = [user_id |-> "u2", email |-> "u2@x"]
        /\ Cardinality(jwts) >= 2
        /\ \E e \in refresh_store : e.handle = ts[r].refresh_token /\ e.user_id = "u2"

\* C34: rotation keeps at most one live handle per lineage: after one
\* POST /auth/token and any sequence of POST /auth/refresh requests, sequential
\* or concurrent, that present handles descended from it, the store holds at most
\* one unconsumed refresh handle.
C34_OneLiveHandlePerLineage ==
    rlog.minted <= 1 => Cardinality({ e \in refresh_store : live(e, now) }) <= 1

\* C25: POST /auth/refresh answers 401 only when the presented handle is not in
\* the store; when the store fails while the handle is looked up or deleted, the
\* answer is 500 and not 401.
C25_StoreFailureIs500 ==
    \A r \in Tasks :
        (ts[r].kind = "refresh" /\ ts[r].pc = "done")
            => /\ ts[r].status = 401 => (~ts[r].dberr /\ redis_get(ts[r].handle) = {})
               /\ ts[r].dberr => ts[r].status = 500

-----------------------------------------------------------------------------
(* Claims about revocation, checked under SpecRevoke.                      *)

\* C3: a POST /auth/validate of a JWT handed out by the service that begins after
\* POST /auth/revoke of that JWT has been answered 200, at a time before the JWT's
\* exp and with the store answering, is answered 401 "Token has been revoked" and
\* not valid:true
C3_RevokedUntilExp ==
    \A r \in Tasks :
        ( /\ ts[r].kind = "validate" /\ ts[r].pc = "done"
          /\ ts[r].token \in jwts /\ ts[r].after200 /\ ~ts[r].dberr
          /\ now < deserialize(ts[r].token.payload).exp )
            => /\ ts[r].status = 401
               /\ ts[r].error = "Token has been revoked"
               /\ ~ts[r].valid

C3_Witness ==
    \E r \in Tasks :
        /\ ts[r].kind = "validate" /\ ts[r].pc = "done"
        /\ ts[r].token \in jwts /\ ts[r].after200 /\ ~ts[r].dberr
        /\ now = deserialize(ts[r].token.payload).exp - 1
        /\ ts[r].status = 401 /\ ts[r].error = "Token has been revoked"

\* C4: a POST /auth/validate whose revocation lookup fails is answered 500 with
\* valid:false; valid:true is answered only with 200 and a lookup that succeeded
C4_FailClosed ==
    \A r \in Tasks :
        (ts[r].kind = "validate" /\ ts[r].pc = "done")
            => /\ ts[r].dberr => (ts[r].status = 500 /\ ~ts[r].valid)
               /\ ts[r].valid => (ts[r].status = 200 /\ ~ts[r].dberr)

C4_Witness ==
    \E r \in Tasks :
        /\ ts[r].kind = "validate" /\ ts[r].pc = "done" /\ ts[r].dberr
        /\ ts[r].status = 500 /\ ~ts[r].valid
        /\ ts[r].token \in jwts

C35_OnlyValidTokensBlacklisted ==
    /\ \A r \in Tasks :
          /\ (ts[r].kind = "revoke" /\ ts[r].pc = "set_ex")
                 => /\ ts[r].token.header = "HS256"
                    /\ ts[r].token.signature
                           = hmac(ts[r].token.header, ts[r].token.payload, Secret)
                    /\ ts[r].claims = deserialize(ts[r].token.payload)
                    /\ ts[r].ttl > 0
                    /\ ts[r].ttl <= ts[r].claims.exp
          /\ (/\ ts[r].kind = "revoke" /\ ts[r].pc = "done"
              /\ \/ ts[r].token.header # "HS256"
                 \/ ts[r].token.signature
                        # hmac(ts[r].token.header, ts[r].token.payload, Secret))
                 => /\ ts[r].status = 401
                    /\ ts[r].error = "Invalid token"
                    /\ ts[r].claims = NoClaims
                    /\ ~ts[r].dberr
    /\ \A e \in blacklist :
          /\ e.jti \in rlog.revoked
          /\ \E t \in jwts : jti_of(t) = e.jti
    /\ \A j \in rlog.revoked : \E t \in jwts : jti_of(t) = j

\* a revocation presenting a live JWT re-signed under another key was refused,
\* and the JWT is not blacklisted
C35_Witness ==
    \E r \in Tasks : \E t \in jwts :
        /\ ts[r].kind = "revoke" /\ ts[r].pc = "done"
        /\ ts[r].token = Forged(t)
        /\ now < deserialize(t.payload).exp
        /\ ts[r].status = 401
        /\ ~is_token_revoked(jti_of(t))

\* C33: revocation is idempotent. A revocation of a JWT that an earlier
\* revocation has blacklisted and that is not yet expired goes on to its SET and,
\* the SET succeeding, is answered 200; the blacklist holds one entry per jti; and
\* a revoked JWT stays blacklisted, and is refused as revoked by validation,
\* until its exp.
C33_RevokeIdempotent ==
    /\ \A e, f \in blacklist : e.jti = f.jti => e = f
    /\ \A t \in jwts :
          (jti_of(t) \in rlog.revoked /\ now < deserialize(t.payload).exp)
              => is_token_revoked(jti_of(t))
    /\ \A r \in Tasks :
          /\ (/\ ts[r].kind = "revoke" /\ ts[r].pc = "done"
              /\ ts[r].token \in jwts /\ ts[r].after200 /\ ~ts[r].dberr
              /\ now < deserialize(ts[r].token.payload).exp)
                 => /\ ts[r].status = 200
                    /\ \E e \in blacklist :
                           /\ e.jti = jti_of(ts[r].token)
                           /\ e.expire_at >= deserialize(ts[r].token.payload).exp
          /\ (/\ ts[r].kind = "validate" /\ ts[r].pc = "done"
              /\ ts[r].token \in jwts /\ ts[r].after200 /\ ~ts[r].dberr
              /\ now < deserialize(ts[r].token.payload).exp)
                 => ts[r].status = 401 /\ ts[r].error = "Token has been revoked"

\* a JWT revoked before has been revoked again, later, and answered 200
C33_Witness ==
    \E r \in Tasks :
        /\ ts[r].kind = "revoke" /\ ts[r].pc = "done"
        /\ ts[r].token \in jwts /\ ts[r].after200
        /\ ts[r].ttl < AccessTokenExpirySeconds
        /\ now < deserialize(ts[r].token.payload).exp
        /\ ts[r].status = 200
        /\ Cardinality({ e \in blacklist : e.jti = jti_of(ts[r].token) }) = 1

\* C21: every blacklist entry is evicted no later than the exp of the JWT that
\* carries its jti: the blacklist never holds an entry past that exp.
C21_BlacklistWithinExp ==
    \A e \in blacklist :
        \E t \in jwts : /\ jti_of(t) = e.jti
                        /\ e.expire_at <= deserialize(t.payload).exp

\* C22: no resurrection: a JWT that a validation has refused as expired or as
\* revoked is never answered valid:true by a later validation.
C22_NoResurrection ==
    \A r \in Tasks :
        (ts[r].kind = "validate" /\ ts[r].pc = "done" /\ ts[r].status = 200)
            => jti_of(ts[r].token) \notin rlog.rejected

-----------------------------------------------------------------------------
(* Claims about generate_token / validate_token, checked under SpecJwt.    *)

C11_ExpiredAtExp ==
    (jw.pc = "verified" /\ ~jw.retagged /\ jw.vkey = jw.key /\ jw.claims.exp <= now)
        => (~jw.result.ok /\ jw.result.err = "ExpiredSignature")

-----------------------------------------------------------------------------
(* Claims about the GET endpoints of the authorization server, checked     *)
(* under SpecGet.                                                          *)

\* C37: GET /oauth/userinfo answers 200 for bearer value T only if T is a row
\* of access_tokens that the INSERT of a code exchange wrote, and the sub it
\* returns is the user_id of the authorization code that was exchanged for T.
C37_UserinfoOnlyForExchangedTokens ==
    (reply # NoReply /\ reply.endpoint = "userinfo" /\ reply.status = 200)
        => /\ reply.authorization.present /\ reply.authorization.scheme = "Bearer"
           /\ \E t \in access_tokens : \E e \in exchanged :
                 /\ t.token = reply.authorization.token
                 /\ e.token = t.token
                 /\ t.user_id = e.user_id
                 /\ reply.sub = e.user_id
                 /\ t.expires_at >= now
           /\ \A a \in authorization_codes : a.code # reply.authorization.token
           /\ \A r \in Tasks :
                 task[r].pc = "insert_token"
                     => task[r].access_token # reply.authorization.token

\* userinfo answered 200 for a token that an exchange wrote, while a code is
\* still stored
C37_Witness ==
    /\ reply.endpoint = "userinfo"
    /\ reply.status = 200
    /\ reply.sub = "user_001"
    /\ \E e \in exchanged : e.token = reply.authorization.token
    /\ authorization_codes # {}

\* C32: GET /oauth/userinfo fails closed: a response after a failed lookup of
\* the access token or of the user is 500 and carries neither sub nor username,
\* and a response that carries either of them is a 200 whose lookups succeeded.
C32_UserinfoFailsClosed ==
    (reply # NoReply /\ reply.endpoint = "userinfo")
        => /\ reply.dberr => /\ reply.status = 500
                             /\ reply.error = "Internal server error"
                             /\ reply.sub = "" /\ reply.username = ""
           /\ (reply.sub # "" \/ reply.username # "")
                  => reply.status = 200 /\ ~reply.dberr

\* a lookup failed for a request that presented a stored, unexpired token
C32_Witness ==
    /\ reply.endpoint = "userinfo"
    /\ reply.authorization.scheme = "Bearer"
    /\ \E a \in access_tokens : /\ a.token = reply.authorization.token
                                /\ a.expires_at >= now
    /\ reply.dberr
    /\ reply.status = 500

\* C13: GET /oauth/userinfo with a stored access token answers 401 "expired" when
\* the token's expires_at is less than or equal to now, and returns user data
\* only when expires_at > now
C13_TokenExpiredAtExpiresAt ==
    (reply.endpoint = "userinfo" /\ reply.authorization.scheme = "Bearer" /\ ~reply.dberr)
        => \A a \in fetch_token(reply.authorization.token) :
              /\ a.expires_at <= now
                    => (reply.status = 401 /\ reply.error = "Token has expired")
              /\ reply.status = 200 => a.expires_at > now

\* C16: GET /oauth/authorize renders a page that reflects the query only if
\* response_type is "code", client_id is a registered client and redirect_uri
\* equals that client's registered redirect_uri
C16_ConsentOnlyForRegistered ==
    (reply.endpoint = "authorize" /\ reply.reflected # NoQuery)
        => /\ reply.query.response_type = "code"
           /\ \E c \in lookup_client(reply.query.client_id) :
                 c.redirect_uri = reply.query.redirect_uri

-----------------------------------------------------------------------------
(* Claims about the Claims built under a loaded Config, checked under      *)
(* SpecConfig.                                                             *)

\* C20: every Claims value built at mint or at refresh under a Config that
\* from_env accepted has exp > iat and exp - iat equal to the configured
\* access_token_expiry_seconds.
C20_ExpAfterIat ==
    (svc.pc = "serving" /\ svc.claims # NoClaims)
        => /\ svc.claims.exp > svc.claims.iat
           /\ svc.claims.exp - svc.claims.iat = svc.config.jwt.access_token_expiry_seconds

\* C26: Config::from_env fails when JWT_SECRET is unset or shorter than 32
\* bytes, and the service then serves no request; the secret a running service
\* signs and verifies with is the JWT_SECRET of its environment and is at least
\* 32 bytes long.
C26_SecretAtLeast32 ==
    svc.pc # "start"
        => /\ (~svc.env.JWT_SECRET.set \/ Len(svc.env.JWT_SECRET.text) < 32)
                  => /\ svc.pc = "exited"
                     /\ svc.error # ""
                     /\ svc.claims = NoClaims /\ svc.token = NoToken /\ ~svc.validated
           /\ svc.pc = "serving"
                  => /\ svc.config.jwt.secret = svc.env.JWT_SECRET.text
                     /\ Len(svc.config.jwt.secret) >= 32
                     /\ svc.token # NoToken
                            => Len(svc.token.signature.key) >= 32

\* a secret of 31 bytes has been refused at start-up
C26_Witness ==
    /\ svc.pc = "exited"
    /\ svc.env.JWT_SECRET.set
    /\ Len(svc.env.JWT_SECRET.text) = 31
    /\ svc.error = "JWT_SECRET must be at least 32 characters (256 bits) for security"

-----------------------------------------------------------------------------
(* Claims about the gate of the protected route, checked under             *)
(* SpecProtected.                                                          *)

\* C23: the handler behind the gate runs, with the decoded Claims attached, only
\* for a request whose Bearer token passes validate_token and whose jti is not
\* blacklisted; a missing or malformed header, an invalid token and a revoked
\* token are answered 401, a store error during the revocation check 500, and in
\* none of these the handler runs.
C23_GateBeforeHandler ==
    (reply # NoReply /\ reply.endpoint = "protected")
        => LET h == reply.authorization
               bearer == h.present /\ h.scheme = "Bearer"
               v == validate_token(h.token, Secret, now)
           IN  /\ reply.next_ran
                      => /\ bearer /\ v.ok
                         /\ ~is_token_revoked(v.claims.jti)
                         /\ reply.claims = v.claims
                         /\ reply.status = 200
               /\ (~bearer \/ ~v.ok) => (reply.status = 401 /\ ~reply.next_ran)
               /\ (bearer /\ v.ok /\ reply.dberr) => (reply.status = 500 /\ ~reply.next_ran)
               /\ (bearer /\ v.ok /\ ~reply.dberr /\ is_token_revoked(v.claims.jti))
                      => (reply.status = 401 /\ ~reply.next_ran)

\* the store failed while the gate checked a well-signed, unexpired token
C23_Witness ==
    /\ reply # NoReply
    /\ reply.endpoint = "protected"
    /\ reply.authorization.scheme = "Bearer"
    /\ validate_token(reply.authorization.token, Secret, now).ok
    /\ reply.dberr
    /\ reply.status = 500

-----------------------------------------------------------------------------
(* Claims about the comparison of client secrets, checked under            *)
(* SpecCompare.                                                            *)

\* C27: the comparison of the presented client_secret with the stored one is
\* constant-time: for two presented secrets of one length it reads the same
\* number of bytes, wherever the first mismatch is and whatever the secrets hold.
C27_ConstantTimeCompare ==
    jw.pc = "compared" => jw.compared[1].steps = jw.compared[2].steps

====
